---- MODULE Spec2Model ----
(***************************************************************************)
(* Model of the scribe backend's job/event engine:                         *)
(*   ScribeService      (src/backend/scribe_backend/service.py)            *)
(*   TranscriptionEngine(src/backend/scribe_backend/engine/transcription.py)*)
(*   Database           (src/backend/scribe_backend/db/dao.py)             *)
(*                                                                         *)
(* Scheduling model.  All coroutines run on one asyncio event loop, so the *)
(* code between two awaits is one atomic action.  Every Store write is     *)
(* submitted to the 1-worker writer executor at the call and is applied    *)
(* later, in submission order, by ApplyWrite; the issuing coroutine        *)
(* resumes in a later action.  Store reads run on the reader pool and are  *)
(* their own actions.  Work on the Engine's executor (model acquisition,   *)
(* next_segment) touches no shared state, so its completion is merged with *)
(* the resumption of the coroutine that awaits it.                         *)
(***************************************************************************)
EXTENDS Integers, Sequences, FiniteSets, TLC

\* ------------------------------------------------------------------ bounds
MaxSegs == 2
MaxRestarts == 1
\* Segments of the first submission and of a re-submission in SpecDelete: the
\* first one fills a batch and has a remainder, the second one has no speech.
MaxSegsBatch == 11
MaxSegsResubmit == 0
\* The longest list of edits of one SaveTranscriptEdits request.
MaxEdits == 2

\* --------------------------------------------------------- program constants
BatchSize == 10
ProgressOne == 100

\* The job ids clients use, the StartTranscription calls (each with the
\* run_job task it creates), and the handler instances of the streaming, the
\* cancelling and the deleting clients.  Each specification below switches on
\* the handlers its scenario needs.
Jobs == {1}
Runs == {1, 2}
Subs == {1, 2}
Cancels == {1, 2}
Deletes == {1}
Edits == {1, 2}

QUEUED == "QUEUED"
RUNNING == "RUNNING"
COMPLETED == "COMPLETED"
FAILED == "FAILED"
CANCELED == "CANCELED"
NOJOB == "NOJOB"
NULL == "NULL"

terminal_statuses == {COMPLETED, FAILED, CANCELED}

SupportedTranslationLanguages == {"en", "es", "fr", "de", "it", "pt", "ja", "zh", "ko"}
\* Translation targets a submission may carry: none, or an unsupported one.
TargetLangs == {NULL, "xx"}
\* Results of the audio probe: 0 (unknown) or a positive duration.
Durations == {0, 10}

StaleError == "Server restarted while job was in progress"

VARIABLES
  db_jobs,      \* jobs table: job_id -> row, NoRow when absent
  db_segs,      \* transcript_segments table: job_id -> rows ordered by idx
  wq,           \* writes submitted to the writer executor, not yet applied
  active_jobs,  \* TranscriptionEngine.active_jobs: job_id -> "absent" | "True" | "False"
  job_subscribers, \* ScribeService._job_subscribers: job_id -> list of queues
  queue,        \* asyncio.Queue of each StreamTranscription handler
  start,        \* StartTranscription handlers, one per call
  task,         \* run_job task created by each StartTranscription call
  sub,          \* StreamTranscription handlers
  cancel,       \* CancelJob handlers
  emitted,      \* history: every event dict run_job passed to on_event
  restarts,     \* number of process restarts so far
  recovered,    \* what fail_stale_jobs returned at the last startup
  del,          \* DeleteJob handlers
  edit,         \* SaveTranscriptEdits handlers
  latest,       \* history: job_id -> idx -> the last edit a saved=True call made
  entries,      \* _ModelCache._entries: the entries, least recently used first
  current_bytes, \* _ModelCache._current_bytes
  budget,       \* _ModelCache._budget
  ret,          \* the last cache operation and what it returned
  loader,       \* _get_or_load_model calls
  loadq,        \* loads submitted to the Engine's one-worker executor
  disk,         \* models_dir: model name -> whether its directory exists, its files
  active_downloads, \* ModelManager._active_downloads: model name -> download, 0 if none
  cancel_event, \* the threading.Event each download created
  dl,           \* DownloadModel handlers
  th,           \* download_model_with_progress calls (executor threads)
  succeeded,    \* history: a download of the model returned successfully
  cancelret     \* the last cancel_download call: its result, what was in flight

cacheVars == <<entries, current_bytes, budget, ret, loader, loadq>>
downloadVars == <<disk, active_downloads, cancel_event, dl, th, succeeded, cancelret>>
\* The state of the model cache and of the model downloads.
modelVars == <<cacheVars, downloadVars>>

\* The state of the Service, the Store and the jobs.
serviceVars == <<db_jobs, db_segs, wq, active_jobs, job_subscribers, queue, start,
                 task, sub, cancel, emitted, restarts, recovered, del, edit, latest>>

vars == <<serviceVars, edit, latest, modelVars>>

\* ------------------------------------------------------------------ values
NoRow == [status |-> NOJOB, error |-> NULL, progress |-> 0]
NoSeg == [idx |-> -1, start |-> 0, end |-> 0, text |-> <<>>]
\* The end-of-stream sentinel (None) put on a subscriber queue.
None == [status |-> "None", progress |-> 0, segment |-> NoSeg, error |-> NULL]

Min(a, b) == IF a <= b THEN a ELSE b

\* str.strip() on a text given as a sequence of characters.
RECURSIVE LStrip(_)
LStrip(s) == IF s # <<>> /\ Head(s) = " " THEN LStrip(Tail(s)) ELSE s
RECURSIVE RStrip(_)
RStrip(s) == IF s # <<>> /\ s[Len(s)] = " " THEN RStrip(SubSeq(s, 1, Len(s) - 1)) ELSE s
Strip(s) == RStrip(LStrip(s))

\* The recognition runtime's i-th segment (0-based): a black box, fixed here.
RawText(i) ==
  CASE i % 3 = 0 -> <<" ", "h", "i">>
    [] i % 3 = 1 -> <<" ", " ">>
    [] OTHER     -> <<"y", "o", " ">>
RawSegment(i) == [start |-> 5 * i, end |-> 5 * i + 5, text |-> RawText(i)]

\* min(processed_duration / audio_duration, 1.0), in hundredths.
ProgressOf(processed_duration, audio_duration) ==
  IF audio_duration > 0
    THEN Min((processed_duration * ProgressOne) \div audio_duration, ProgressOne)
    ELSE 0

\* ------------------------------------------------------------- Store (dao)
WStatus(j, by, status, error) ==
  [op |-> "status", job |-> j, by |-> by, status |-> status, error |-> error,
   progress |-> 0, segs |-> <<>>, edits |-> <<>>]
WProgress(j, by, p) ==
  [op |-> "progress", job |-> j, by |-> by, status |-> NOJOB, error |-> NULL,
   progress |-> p, segs |-> <<>>, edits |-> <<>>]
WSegments(j, by, segs) ==
  [op |-> "segments", job |-> j, by |-> by, status |-> NOJOB, error |-> NULL,
   progress |-> 0, segs |-> segs, edits |-> <<>>]
WCreate(j, by) ==
  [op |-> "create", job |-> j, by |-> by, status |-> QUEUED, error |-> NULL,
   progress |-> 0, segs |-> <<>>, edits |-> <<>>]

WDelete(j, by) ==
  [op |-> "delete", job |-> j, by |-> by, status |-> NOJOB, error |-> NULL,
   progress |-> 0, segs |-> <<>>, edits |-> <<>>]

WEdits(j, by, edits) ==
  [op |-> "edits", job |-> j, by |-> by, status |-> NOJOB, error |-> NULL,
   progress |-> 0, segs |-> <<>>, edits |-> edits]

\* Database.create_job: INSERT, False when the row exists.
create_job(rows, j) ==
  IF rows[j] = NoRow
    THEN [rows EXCEPT ![j] = [status |-> QUEUED, error |-> NULL, progress |-> 0]]
    ELSE rows
create_job_ok(rows, j) == rows[j] = NoRow

\* Database.update_job_status: UPDATE ... WHERE job_id = ?; error set iff given.
update_job_status(rows, j, status, error) ==
  IF rows[j] = NoRow THEN rows
  ELSE [rows EXCEPT ![j] = [@ EXCEPT !.status = status,
                                     !.error = IF error # NULL THEN error ELSE @]]

\* A slip in the status code: 4 (FAILED) written instead of 5.
db_cancel_job_WrongCode(j, by) == WStatus(j, by, FAILED, NULL)
\* Database.cancel_job: update_job_status(job_id, 5).
db_cancel_job(j, by) == WStatus(j, by, CANCELED, NULL)

\* Database.update_job_progress.
update_job_progress(rows, j, p) ==
  IF rows[j] = NoRow THEN rows ELSE [rows EXCEPT ![j].progress = p]

\* Database.insert_segments_batch: one transaction appending the rows
\* (idx, start, end, text; edited_text is left NULL).
SegRow(seg) ==
  [idx |-> seg.idx, start |-> seg.start, end |-> seg.end, text |-> seg.text,
   edited_text |-> NULL]
\* The parameter of one UPDATE: edit['edited_text'] or None.
EditParam(text) == IF text = "" THEN NULL ELSE text
\* One UPDATE transcript_segments SET edited_text = ? WHERE job_id = ? AND
\* idx = ?: the rows of the job with that idx get the text, no row otherwise.
UpdateEditedText(rows, e) ==
  [i \in 1..Len(rows) |->
     IF rows[i].idx = e.segment_index
       THEN [rows[i] EXCEPT !.edited_text = EditParam(e.edited_text)]
       ELSE rows[i]]
\* executemany runs the UPDATE once per edit, in the order of the list.
RECURSIVE ExecuteMany(_, _)
ExecuteMany(rows, edits) ==
  IF edits = <<>> THEN rows
  ELSE ExecuteMany(UpdateEditedText(rows, Head(edits)), Tail(edits))
\* Database.save_segment_edits
save_segment_edits(segs, j, edits) == [segs EXCEPT ![j] = ExecuteMany(@, edits)]

insert_segments_batch(segs, j, batch) ==
  [segs EXCEPT ![j] = @ \o [i \in 1..Len(batch) |-> SegRow(batch[i])]]

\* The schema's constraints on transcript_segments: the foreign key to
\* jobs(job_id) and the unique index on (job_id, idx).  An INSERT that breaks
\* one raises IntegrityError.  Batches start at a multiple of BatchSize and
\* are stored whole, so a batch that fails fails at its first row and stores
\* nothing.
SegmentInsertFails(rows, segs, j, batch) ==
  \/ rows[j] = NoRow
  \/ \E i \in 1..Len(batch), k \in 1..Len(segs[j]) : segs[j][k].idx = batch[i].idx

\* A delete that removes nothing.
delete_job_Keep(rows, j) == rows
\* Database.delete_job: DELETE FROM jobs WHERE job_id = ?.
delete_job(rows, j) == [rows EXCEPT ![j] = NoRow]
\* ON DELETE CASCADE from jobs to transcript_segments.
DeleteCascade(segs, j) == [segs EXCEPT ![j] = <<>>]

\* A recovery that forgets the QUEUED jobs.
fail_stale_jobs_RunningOnly(rows) ==
  [j \in Jobs |->
     IF rows[j].status = RUNNING
       THEN [rows[j] EXCEPT !.status = FAILED, !.error = StaleError]
       ELSE rows[j]]
\* Database.fail_stale_jobs: the UPDATE, and the rowcount it returns.
fail_stale_rowcount(rows) ==
  Cardinality({j \in Jobs : rows[j].status \in {QUEUED, RUNNING}})
fail_stale_jobs(rows) ==
  [j \in Jobs |->
     IF rows[j].status \in {QUEUED, RUNNING}
       THEN [rows[j] EXCEPT !.status = FAILED, !.error = StaleError]
       ELSE rows[j]]

\* Database.get_segments: the rows of a job, ORDER BY idx.
RECURSIVE OrderByIdx(_)
OrderByIdx(rows) ==
  IF rows = <<>> THEN <<>>
  ELSE LET m == CHOOSE k \in 1..Len(rows) :
                  \A l \in 1..Len(rows) : rows[k].idx <= rows[l].idx
       IN <<rows[m]>> \o
          OrderByIdx(SubSeq(rows, 1, m - 1) \o SubSeq(rows, m + 1, Len(rows)))
get_segments(segs, j) == OrderByIdx(segs[j])

\* ------------------------------------------------------- EventBus (service)
InList(s, list) == \E i \in 1..Len(list) : list[i] = s
Remove(s, list) == SelectSeq(list, LAMBDA x : x # s)

\* ScribeService._subscribe
Subscribe(subs, j, s) == [subs EXCEPT ![j] = Append(@, s)]
\* ScribeService._unsubscribe
Unsubscribe(subs, j, s) == [subs EXCEPT ![j] = Remove(s, @)]
\* A publish that puts the event at the front of each queue.
Publish_AtFront(q, subs, j, ev) ==
  [s \in Subs |-> IF InList(s, subs[j]) THEN <<ev>> \o q[s] ELSE q[s]]
\* ScribeService._publish
Publish(q, subs, j, ev) ==
  [s \in Subs |-> IF InList(s, subs[j]) THEN Append(q[s], ev) ELSE q[s]]
\* ScribeService._publish_end
PublishEnd(q, subs, j) ==
  [s \in Subs |-> IF InList(s, subs[j]) THEN Append(q[s], None) ELSE q[s]]

\* An engine event dict: status, progress, optional segment, error, final.
Event(status, progress, segment, error, final) ==
  [status |-> status, progress |-> progress, segment |-> segment,
   error |-> error, final |-> final]
\* _on_engine_event: the protobuf event built from the dict.
ToProto(ev) ==
  [status |-> ev.status, progress |-> ev.progress, segment |-> ev.segment,
   error |-> ev.error]
\* A callback that forgets the end-of-stream sentinel.
OnEngineEvent_NoEnd(q, subs, j, ev) == Publish(q, subs, j, ToProto(ev))
OnEngineEvent(q, subs, j, ev) ==
  IF ev.final
    THEN PublishEnd(Publish(q, subs, j, ToProto(ev)), subs, j)
    ELSE Publish(q, subs, j, ToProto(ev))

\* run_job._emit: fire the callback (and record the event).
Emit(j, ev) ==
  /\ queue' = OnEngineEvent(queue, job_subscribers, j, ev)
  /\ emitted' = [emitted EXCEPT ![j] = Append(@, ev)]

\* ------------------------------------------------------ _validate_audio_path
\* A path is a flag (absolute or not) and its components; a component is a
\* stem and a suffix.  request.audio is the path and whether file_path is set.
F(stem, ext) == [stem |-> stem, ext |-> ext]
Up == F("..", "")
Audio(abs, parts) == [has_file_path |-> TRUE, abs |-> abs, parts |-> parts]
NoAudio == [has_file_path |-> FALSE, abs |-> FALSE, parts |-> <<>>]

AllowedExtensions == {".wav", ".mp3", ".m4a", ".flac", ".ogg", ".mp4", ".webm"}
BlockedPrefixes == {"etc", "proc", "sys", "dev", "boot", "sbin", "bin", "lib"}

\* The file system the server sees: the regular files (every other path is a
\* directory or does not exist) and one symbolic link into /etc.
RegularFiles ==
  {<<F("home", ""), F("a", ".wav")>>, <<F("home", ""), F("b", ".WAV")>>,
   <<F("home", ""), F("n", ".txt")>>, <<F("etc", ""), F("s", ".wav")>>}
Symlinks == {<<F("home", ""), F("l", ".wav")>>}
LinkTarget(parts) == <<F("etc", ""), F("s", ".wav")>>

\* Path.resolve(): ".." steps to the parent (the root is its own parent) and
\* a symbolic link is replaced by its target.
RECURSIVE ResolveFrom(_, _)
ResolveFrom(done, rest) ==
  IF rest = <<>> THEN done
  ELSE IF Head(rest) = Up
    THEN ResolveFrom(IF done = <<>> THEN <<>> ELSE SubSeq(done, 1, Len(done) - 1),
                     Tail(rest))
    ELSE LET next == Append(done, Head(rest))
         IN ResolveFrom(IF next \in Symlinks THEN LinkTarget(next) ELSE next,
                        Tail(rest))
Resolve(parts) == ResolveFrom(<<>>, parts)

\* Path.suffix of the last component, and str.lower on it.
Suffix(parts) == IF parts = <<>> THEN "" ELSE parts[Len(parts)].ext
Lower(ext) ==
  CASE ext = ".WAV" -> ".wav"
    [] ext = ".MP3" -> ".mp3"
    [] OTHER -> ext

InBlockedPrefix_Never(resolved) == FALSE
\* resolved == prefix or resolved.startswith(prefix + os.sep), for some prefix.
InBlockedPrefix(resolved) == resolved # <<>> /\ resolved[1].stem \in BlockedPrefixes

\* (resolved, NULL) on success, (NULL, message) on failure.
ValidateAudioPath(a) ==
  LET resolved == Resolve(a.parts) IN
    IF a.parts = <<>> /\ ~a.abs
      THEN [resolved |-> <<>>, error |-> "Audio file path is empty"]
    ELSE IF ~a.abs
      THEN [resolved |-> <<>>, error |-> "Audio file path must be absolute"]
    ELSE IF InBlockedPrefix(resolved)
      THEN [resolved |-> <<>>,
            error |-> "Access denied: path is inside a system directory"]
    ELSE IF Lower(Suffix(resolved)) \notin AllowedExtensions
      THEN [resolved |-> <<>>, error |-> "Unsupported file type"]
    ELSE IF resolved \notin RegularFiles
      THEN [resolved |-> <<>>, error |-> "Audio file not found"]
    ELSE [resolved |-> resolved, error |-> NULL]

\* A request that passes validation, and the requests clients may send.
GoodAudio == Audio(TRUE, <<F("home", ""), F("a", ".wav")>>)
Audios ==
  {GoodAudio,
   NoAudio,
   Audio(FALSE, <<>>),
   Audio(FALSE, <<F("home", ""), F("a", ".wav")>>),
   Audio(TRUE, <<F("home", ""), F("b", ".WAV")>>),
   Audio(TRUE, <<F("etc", "")>>),
   Audio(TRUE, <<F("etc", ""), F("s", ".wav")>>),
   Audio(TRUE, <<F("home", ""), Up, F("etc", ""), F("s", ".wav")>>),
   Audio(TRUE, <<F("etc", ""), Up, F("home", ""), F("a", ".wav")>>),
   Audio(TRUE, <<F("home", ""), F("l", ".wav")>>),
   Audio(TRUE, <<F("home", ""), F("n", ".txt")>>),
   Audio(TRUE, <<F("home", ""), F("d", ".wav")>>),
   Audio(TRUE, <<F("home", ""), F("m", ".wav")>>)}

\* --------------------------------------------------------------- _ModelCache
\* Sizes are in units of 10^6 bytes.  ModelCacheBudget is the default of
\* _MODEL_CACHE_BUDGET (2 GiB).
ModelCacheBudget == 2147
AVAILABLE_MODELS == [tiny |-> 39, base |-> 74, large |-> 1550]
\* AVAILABLE_MODELS.get(model_name, 0)
EstimatedBytes(model_name) ==
  IF model_name \in DOMAIN AVAILABLE_MODELS THEN AVAILABLE_MODELS[model_name] ELSE 0

\* An entry of the OrderedDict: key -> (model, estimated_bytes).
Entry(key, model, bytes) == [key |-> key, model |-> model, bytes |-> bytes]
NoModel == "None"
HasKey(es, key) == \E i \in 1..Len(es) : es[i].key = key
EntryOf(es, key) == es[CHOOSE i \in 1..Len(es) : es[i].key = key]
WithoutKey(es, key) == SelectSeq(es, LAMBDA e : e.key # key)

\* get without move_to_end.
cache_get_NoTouch(es, key) ==
  IF HasKey(es, key)
    THEN [model |-> EntryOf(es, key).model, entries |-> es]
    ELSE [model |-> NoModel, entries |-> es]
\* _ModelCache.get: the model and the entries with the key moved to the end,
\* or None and the entries as they are.
cache_get(es, key) ==
  IF HasKey(es, key)
    THEN [model |-> EntryOf(es, key).model,
          entries |-> Append(WithoutKey(es, key), EntryOf(es, key))]
    ELSE [model |-> NoModel, entries |-> es]

\* The eviction loop of put: popitem(last=False) while the cache is not empty
\* and current_bytes + estimated_bytes > budget.
\* A loop that never evicts.
Evict_Never(es, bytes, estimated_bytes, b) == [entries |-> es, current_bytes |-> bytes]
RECURSIVE Evict(_, _, _, _)
Evict(es, bytes, estimated_bytes, b) ==
  IF es # <<>> /\ bytes + estimated_bytes > b
    THEN Evict(Tail(es), bytes - Head(es).bytes, estimated_bytes, b)
    ELSE [entries |-> es, current_bytes |-> bytes]

\* put without the removal of the old entry of the key.
cache_put_KeepOld(es, bytes, b, key, model, estimated_bytes) ==
  LET ev == Evict(es, bytes, estimated_bytes, b)
  IN [entries |-> Append(ev.entries, Entry(key, model, estimated_bytes)),
      current_bytes |-> ev.current_bytes + estimated_bytes]
\* _ModelCache.put: remove the old entry of the key, evict, insert at the end.
cache_put(es, bytes, b, key, model, estimated_bytes) ==
  LET es1 == WithoutKey(es, key)
      bytes1 == IF HasKey(es, key) THEN bytes - EntryOf(es, key).bytes ELSE bytes
      ev == Evict(es1, bytes1, estimated_bytes, b)
  IN [entries |-> Append(ev.entries, Entry(key, model, estimated_bytes)),
      current_bytes |-> ev.current_bytes + estimated_bytes]

\* ------------------------------------------------------------------ Init
IdleStart ==
  [pc |-> "idle", job |-> 0, wait |-> FALSE, ok |-> FALSE, lang |-> NULL,
   audio |-> NoAudio, code |-> NULL, details |-> NULL]
IdleTask ==
  [pc |-> "none", job |-> 0, wait |-> FALSE, lang |-> NULL, segment_count |-> 0,
   segment_batch |-> <<>>, audio_duration |-> 0, processed_duration |-> 0,
   progress |-> 0, error |-> NULL, raised |-> FALSE, deleted |-> FALSE]
\* (deleted records that the job's row was deleted while the task executed.)
\* mode: the branch the handler took ("replay" or "live"); late: whether the
\* StartTranscription call of the job had returned when the stream was opened.
IdleSub ==
  [pc |-> "idle", job |-> 0, snap |-> NoRow, recv |-> <<>>, mode |-> "none",
   late |-> FALSE]
IdleCancel ==
  [pc |-> "idle", job |-> 0, res |-> FALSE, path |-> "none", snap |-> NOJOB,
   at_call |-> NOJOB]

IdleDelete == [pc |-> "idle", job |-> 0, res |-> FALSE]

\* edits: the request's list until it is handed to the Store; snap: what
\* db.get_job returned; saved: the response, FALSE before it and when the
\* call was aborted.
IdleEdit ==
  [pc |-> "idle", job |-> 0, edits |-> <<>>, snap |-> NOJOB, saved |-> FALSE,
   code |-> NULL]
\* No saved edit of any segment.
NoEdits == [i \in {} |-> NULL]

\* The state after construction, with the handlers in SubsOn, CancelsOn,
\* DeletesOn and RunsOn available to clients.
IdleLoader == [pc |-> "idle", key |-> <<>>, model |-> NoModel]
NoRet == [op |-> "none", key |-> <<>>, model |-> NoModel]
Loaders == {1, 2, 3}
\* The WhisperModel object the l-th call constructs.
LoadedModel(l) == <<"m1", "m2", "m3">>[l]
\* The WhisperModel object the l-th call constructs on its retry with
\* device="cpu", compute_type="int8".
FallbackModel(l) == <<"c1", "c2", "c3">>[l]
\* The objects _load can return for a key: the first constructor's, or, for a
\* device other than "cpu", the retry's.
LoadResults(l, key) ==
  IF key[2] # "cpu" THEN {LoadedModel(l), FallbackModel(l)} ELSE {LoadedModel(l)}
\* Cache keys (model_name, device, compute_type); "custom" is not a key of
\* AVAILABLE_MODELS.
CacheKeys ==
  {<<"tiny", "cpu", "int8">>, <<"base", "cpu", "int8">>, <<"custom", "cuda", "float16">>}
\* Inputs of direct cache calls: models, estimated sizes and budgets.
Models == {"m1", "m2"}
Sizes == {0, 40, 80, 120}
Budgets == {0, 100}
LoadBudgets == {100, 120}

\* The Engine after construction: an empty cache with a budget from BudgetsOn,
\* no model being loaded.
CacheInit(BudgetsOn, LoadersOn) ==
  /\ entries = <<>>
  /\ current_bytes = 0
  /\ budget \in BudgetsOn
  /\ ret = NoRet
  /\ loader = [l \in Loaders |->
                 IF l \in LoadersOn THEN IdleLoader ELSE [IdleLoader EXCEPT !.pc = "off"]]
  /\ loadq = <<>>

\* The DownloadModel calls, the model names of _MODEL_REPOS that are
\* requested, and a name that is no model.
Downloads == {1, 2}
DownloadNames == {"tiny"}
RequestNames == {"tiny", "nope"}
\* The files of the repository that match _ALLOW_PATTERNS, in the order of
\* list_repo_files, with their sizes in chunks; tqdm's update is called once
\* per chunk.
RepoFiles == <<[name |-> "config.json", size |-> 1], [name |-> "model.bin", size |-> 2]>>

NoDir == [exists |-> FALSE, files |-> {}]
IdleDownload ==
  [pc |-> "idle", name |-> "none", queue |-> <<>>, future |-> "pending",
   stream |-> <<>>]
IdleThread ==
  [pc |-> "idle", name |-> "none", file |-> 0, n |-> 0, total_bytes_all |-> 0,
   file_progress |-> <<>>, ready |-> <<>>, cbs |-> <<>>, result |-> "none",
   overlap |-> {}]
NoCancel == [name |-> "none", res |-> FALSE, inflight |-> {}]

\* The ModelManager after construction over an empty models directory, with
\* the DownloadModel calls in DownloadsOn available to clients.
DownloadInit(DownloadsOn) ==
  /\ disk = [m \in DownloadNames |-> NoDir]
  /\ active_downloads = [m \in DownloadNames |-> 0]
  /\ cancel_event = [d \in Downloads |-> FALSE]
  /\ dl = [d \in Downloads |->
             IF d \in DownloadsOn THEN IdleDownload
                                  ELSE [IdleDownload EXCEPT !.pc = "off"]]
  /\ th = [d \in Downloads |-> IdleThread]
  /\ succeeded = [m \in DownloadNames |-> FALSE]
  /\ cancelret = NoCancel

ModelsInit(BudgetsOn, LoadersOn) ==
  /\ CacheInit(BudgetsOn, LoadersOn)
  /\ DownloadInit({})

ServiceInitOn(SubsOn, CancelsOn, DeletesOn, RunsOn, EditsOn) ==
  /\ edit = [e \in Edits |->
               IF e \in EditsOn THEN IdleEdit ELSE [IdleEdit EXCEPT !.pc = "off"]]
  /\ latest = [j \in Jobs |-> NoEdits]
  /\ db_jobs = [j \in Jobs |-> NoRow]
  /\ db_segs = [j \in Jobs |-> <<>>]
  /\ wq = <<>>
  /\ active_jobs = [j \in Jobs |-> "absent"]
  /\ job_subscribers = [j \in Jobs |-> <<>>]
  /\ queue = [s \in Subs |-> <<>>]
  /\ start = [r \in Runs |->
                IF r \in RunsOn THEN IdleStart ELSE [IdleStart EXCEPT !.pc = "off"]]
  /\ task = [r \in Runs |-> IdleTask]
  /\ sub = [s \in Subs |-> IF s \in SubsOn THEN IdleSub ELSE [IdleSub EXCEPT !.pc = "off"]]
  /\ cancel = [c \in Cancels |->
                 IF c \in CancelsOn THEN IdleCancel ELSE [IdleCancel EXCEPT !.pc = "off"]]
  /\ emitted = [j \in Jobs |-> <<>>]
  /\ restarts = 0
  /\ recovered = 0
  /\ del = [d \in Deletes |->
              IF d \in DeletesOn THEN IdleDelete ELSE [IdleDelete EXCEPT !.pc = "off"]]

ServiceInit(SubsOn, CancelsOn, DeletesOn, RunsOn) ==
  ServiceInitOn(SubsOn, CancelsOn, DeletesOn, RunsOn, {})

InitOn(SubsOn, CancelsOn, DeletesOn, RunsOn) ==
  /\ ServiceInit(SubsOn, CancelsOn, DeletesOn, RunsOn)
  /\ ModelsInit({ModelCacheBudget}, {})
InitWith(SubsOn, CancelsOn) == InitOn(SubsOn, CancelsOn, {}, {1})

\* ------------------------------------------------------------ writer lane
\* A worker that takes the newest work item.
Dequeue_Newest(q) == [item |-> q[Len(q)], rest |-> SubSeq(q, 1, Len(q) - 1)]
\* The single worker of _write_executor takes the oldest work item.
Dequeue(q) == [item |-> Head(q), rest |-> Tail(q)]

\* The edits of a call that returned saved=True, added to the history in the
\* order of the list.
RECURSIVE Record(_, _)
Record(h, edits) ==
  IF edits = <<>> THEN h
  ELSE Record([i \in DOMAIN h \cup {Head(edits).segment_index} |->
                 IF i = Head(edits).segment_index THEN Head(edits).edited_text
                 ELSE h[i]],
              Tail(edits))

\* The writer executor applies the oldest submitted write and completes its
\* future.  A CancelJob handler does nothing after its write but return True.
ApplyWrite ==
  /\ wq # <<>>
  /\ LET w == Dequeue(wq).item IN
       /\ wq' = Dequeue(wq).rest
       /\ db_jobs' =
            CASE w.op = "create" -> create_job(db_jobs, w.job)
              [] w.op = "status" -> update_job_status(db_jobs, w.job, w.status, w.error)
              [] w.op = "progress" -> update_job_progress(db_jobs, w.job, w.progress)
              [] w.op = "delete" -> delete_job(db_jobs, w.job)
              [] OTHER -> db_jobs
       /\ db_segs' =
            CASE w.op = "segments" ->
                   IF SegmentInsertFails(db_jobs, db_segs, w.job, w.segs)
                     THEN db_segs
                     ELSE insert_segments_batch(db_segs, w.job, w.segs)
              [] w.op = "delete" -> DeleteCascade(db_segs, w.job)
              [] w.op = "edits" -> save_segment_edits(db_segs, w.job, w.edits)
              [] OTHER -> db_segs
       /\ start' = IF w.by[1] = "start"
                     THEN [start EXCEPT ![w.by[2]] =
                             [@ EXCEPT !.wait = FALSE,
                                       !.ok = create_job_ok(db_jobs, w.job)]]
                     ELSE start
       /\ task' = IF w.by[1] = "task"
                    THEN [task EXCEPT ![w.by[2]] =
                            [@ EXCEPT !.wait = FALSE,
                                      !.raised =
                                         /\ w.op = "segments"
                                         /\ SegmentInsertFails(db_jobs, db_segs,
                                                               w.job, w.segs)]]
                  ELSE IF w.op = "delete"
                    THEN [r \in Runs |->
                            IF task[r].job = w.job /\ task[r].pc \notin {"none", "done"}
                              THEN [task[r] EXCEPT !.deleted = TRUE]
                              ELSE task[r]]
                    ELSE task
       /\ cancel' = IF w.by[1] = "cancel"
                      THEN [cancel EXCEPT ![w.by[2]] =
                              [@ EXCEPT !.pc = "done", !.res = TRUE]]
                      ELSE cancel
       /\ del' = IF w.by[1] = "delete"
                   THEN [del EXCEPT ![w.by[2]] = [@ EXCEPT !.pc = "done", !.res = TRUE]]
                   ELSE del
       /\ edit' = IF w.by[1] = "edit"
                    THEN [edit EXCEPT ![w.by[2]] = [@ EXCEPT !.pc = "done", !.saved = TRUE]]
                    ELSE edit
       /\ latest' =
            CASE w.op = "edits" -> [latest EXCEPT ![w.job] = Record(@, w.edits)]
              [] w.op = "delete" -> [latest EXCEPT ![w.job] = NoEdits]
              [] OTHER -> latest
  /\ UNCHANGED <<active_jobs, job_subscribers, queue, sub, emitted, restarts, recovered,
                 modelVars>>

\* ------------------------------------------------------ StartTranscription
\* context.abort(code, details) followed by return.
Abort(r, j, lang, a, code, details) ==
  /\ start' = [start EXCEPT ![r] =
                 [IdleStart EXCEPT !.pc = "invalid", !.job = j, !.lang = lang,
                                   !.audio = a, !.code = code, !.details = details]]
  /\ wq' = wq

\* The request is validated; when validation passes the job id is the
\* request's or a fresh one and create_job is awaited.
StartTranscription(r, j, lang, a) ==
  /\ start[r].pc = "idle"
  /\ r > 1 => start[r - 1].pc # "idle"
  /\ IF ~a.has_file_path
       THEN Abort(r, j, lang, a, "INVALID_ARGUMENT",
                  "Only file_path audio source is supported")
     ELSE IF ValidateAudioPath(a).error # NULL
       THEN Abort(r, j, lang, a, "INVALID_ARGUMENT", ValidateAudioPath(a).error)
     ELSE /\ start' = [start EXCEPT ![r] =
                         [IdleStart EXCEPT !.pc = "create", !.job = j, !.wait = TRUE,
                                           !.lang = lang, !.audio = a]]
          /\ wq' = Append(wq, WCreate(j, <<"start", r>>))
  /\ UNCHANGED <<db_jobs, db_segs, active_jobs, job_subscribers, queue, task,
                 sub, cancel, emitted, restarts, recovered, del, edit, latest, modelVars>>

\* create_job returned: abort INTERNAL, or create the run_job task and return.
StartResume(r) ==
  /\ start[r].pc = "create"
  /\ ~start[r].wait
  /\ IF start[r].ok
       THEN /\ start' = [start EXCEPT ![r] =
                           [IdleStart EXCEPT !.pc = "done", !.job = start[r].job]]
            /\ task' = [task EXCEPT ![r] =
                          [IdleTask EXCEPT !.pc = "start", !.job = start[r].job,
                                           !.lang = start[r].lang]]
       ELSE /\ start' = [start EXCEPT ![r] =
                           [IdleStart EXCEPT !.pc = "aborted", !.job = start[r].job,
                                             !.code = "INTERNAL",
                                             !.details = "Failed to create job in database"]]
            /\ task' = task
  /\ UNCHANGED <<db_jobs, db_segs, wq, active_jobs, job_subscribers, queue,
                 sub, cancel, emitted, restarts, recovered, del, edit, latest, modelVars>>

\* ------------------------------------------------------------------ run_job
TaskBy(r) == <<"task", r>>
\* A run_job execution between its first statement and its finally clause.
Executing(r) == task[r].pc \notin {"none", "start", "done", "killed"}

\* A terminal status write followed (on resumption) by the final emit.
FailWith(r, t, msg) ==
  /\ task' = [task EXCEPT ![r] = [t EXCEPT !.pc = "failed", !.wait = TRUE,
                                          !.error = msg, !.raised = FALSE]]
  /\ wq' = Append(wq, WStatus(task[r].job, TaskBy(r), FAILED, msg))

\* Top of the segment loop: the cancel check, then next_segment is dispatched.
LoopTop(r, t, flags) ==
  IF flags[task[r].job] = "True"
    THEN /\ task' = [task EXCEPT ![r] = [t EXCEPT !.pc = "next", !.wait = FALSE]]
         /\ wq' = wq
    ELSE /\ task' = [task EXCEPT ![r] = [t EXCEPT !.pc = "canceled", !.wait = TRUE]]
         /\ wq' = Append(wq, WStatus(task[r].job, TaskBy(r), CANCELED, NULL))

\* First step of the task: mark active, check language and file, go RUNNING.
TaskStart(r) ==
  /\ task[r].pc = "start"
  /\ active_jobs' = [active_jobs EXCEPT ![task[r].job] = "True"]
  /\ \E exists \in BOOLEAN :
       IF task[r].lang # NULL /\ task[r].lang \notin SupportedTranslationLanguages
         THEN FailWith(r, task[r], "Transcription failed: Unsupported translation language")
         ELSE IF ~exists
           THEN FailWith(r, task[r], "Audio file not found")
           ELSE /\ task' = [task EXCEPT ![r] = [@ EXCEPT !.pc = "running", !.wait = TRUE]]
                /\ wq' = Append(wq, WStatus(task[r].job, TaskBy(r), RUNNING, NULL))
  /\ UNCHANGED <<db_jobs, db_segs, job_subscribers, queue, start, sub, cancel,
                 emitted, restarts, recovered, del, edit, latest, modelVars>>

\* Status RUNNING is stored: emit RUNNING, dispatch model acquisition.
TaskRunning(r) ==
  /\ task[r].pc = "running"
  /\ ~task[r].wait
  /\ Emit(task[r].job, Event(RUNNING, 0, NoSeg, NULL, FALSE))
  /\ task' = [task EXCEPT ![r].pc = "acquire"]
  /\ UNCHANGED <<db_jobs, db_segs, wq, active_jobs, job_subscribers, start, sub,
                 cancel, restarts, recovered, del, edit, latest, modelVars>>

\* ensure_model, _get_or_load_model, _get_audio_duration, model.transcribe:
\* the model is missing, something raises, or the segment loop is entered.
\* A positive probe result is stored with db.update_job_audio_duration, which
\* Database does not define: the AttributeError lands in the except branch.
\* Only a job whose duration is unknown (0) reaches the segment loop.
TaskAcquire(r) ==
  /\ task[r].pc = "acquire"
  /\ \/ FailWith(r, task[r], "Failed to load model")
     \/ FailWith(r, task[r], "Transcription failed")
     \/ \E d \in Durations :
          IF d > 0
            THEN FailWith(r, [task[r] EXCEPT !.audio_duration = d],
                          "Transcription failed")
            ELSE LoopTop(r, [task[r] EXCEPT !.audio_duration = d], active_jobs)
  /\ UNCHANGED <<db_jobs, db_segs, active_jobs, job_subscribers, queue, start,
                 sub, cancel, emitted, restarts, recovered, del, edit, latest, modelVars>>

\* next_segment returned a segment: strip, batch, emit, flush every BatchSize.
TaskSegment(r, n) ==
  /\ task[r].pc = "next"
  /\ task[r].segment_count < n
  /\ LET t == task[r]
         raw == RawSegment(t.segment_count)
         segment_data == [idx |-> t.segment_count, start |-> raw.start,
                          end |-> raw.end, text |-> Strip(raw.text)]
         batch == Append(t.segment_batch, segment_data)
         progress == ProgressOf(raw.end, t.audio_duration)
         t1 == [t EXCEPT !.segment_batch = batch,
                         !.segment_count = @ + 1,
                         !.processed_duration = raw.end,
                         !.progress = progress]
     IN /\ Emit(task[r].job, Event(RUNNING, progress, segment_data, NULL, FALSE))
        /\ IF Len(batch) >= BatchSize
             THEN /\ task' = [task EXCEPT ![r] = [t1 EXCEPT !.pc = "flush", !.wait = TRUE]]
                  /\ wq' = Append(wq, WSegments(task[r].job, TaskBy(r), batch))
             ELSE LoopTop(r, t1, active_jobs)
  /\ UNCHANGED <<db_jobs, db_segs, active_jobs, job_subscribers, start, sub,
                 cancel, restarts, recovered, del, edit, latest, modelVars>>

\* insert_segments_batch raised (the except branch), or the batch is stored:
\* clear it and store the progress.
TaskFlush(r) ==
  /\ task[r].pc = "flush"
  /\ ~task[r].wait
  /\ IF task[r].raised
       THEN FailWith(r, task[r], "Transcription failed")
       ELSE /\ task' = [task EXCEPT ![r] =
                          [@ EXCEPT !.pc = "flush_progress", !.wait = TRUE,
                                    !.segment_batch = <<>>]]
            /\ wq' = Append(wq, WProgress(task[r].job, TaskBy(r), task[r].progress))
  /\ UNCHANGED <<db_jobs, db_segs, active_jobs, job_subscribers, queue, start,
                 sub, cancel, emitted, restarts, recovered, del, edit, latest, modelVars>>

TaskFlushProgress(r) ==
  /\ task[r].pc = "flush_progress"
  /\ ~task[r].wait
  /\ LoopTop(r, task[r], active_jobs)
  /\ UNCHANGED <<db_jobs, db_segs, active_jobs, job_subscribers, queue, start,
                 sub, cancel, emitted, restarts, recovered, del, edit, latest, modelVars>>

\* next_segment raised: the except branch.
TaskSegmentRaises(r) ==
  /\ task[r].pc = "next"
  /\ FailWith(r, task[r], "Transcription failed")
  /\ UNCHANGED <<db_jobs, db_segs, active_jobs, job_subscribers, queue, start,
                 sub, cancel, emitted, restarts, recovered, del, edit, latest, modelVars>>

\* Submit status COMPLETED.
Complete(r, t) ==
  /\ task' = [task EXCEPT ![r] = [t EXCEPT !.pc = "completed", !.wait = TRUE]]
  /\ wq' = Append(wq, WStatus(task[r].job, TaskBy(r), COMPLETED, NULL))

\* next_segment returned None: flush the remainder, or complete.
TaskStreamEnd(r) ==
  /\ task[r].pc = "next"
  /\ IF task[r].segment_batch # <<>>
       THEN /\ task' = [task EXCEPT ![r] = [@ EXCEPT !.pc = "final_flush", !.wait = TRUE]]
            /\ wq' = Append(wq, WSegments(task[r].job, TaskBy(r), task[r].segment_batch))
       ELSE Complete(r, task[r])
  /\ UNCHANGED <<db_jobs, db_segs, active_jobs, job_subscribers, queue, start,
                 sub, cancel, emitted, restarts, recovered, del, edit, latest, modelVars>>

TaskFinalFlush(r) ==
  /\ task[r].pc = "final_flush"
  /\ ~task[r].wait
  /\ IF task[r].raised
       THEN FailWith(r, task[r], "Transcription failed")
     ELSE IF task[r].audio_duration > 0
       THEN LET p == ProgressOf(task[r].processed_duration, task[r].audio_duration) IN
            /\ task' = [task EXCEPT ![r] = [@ EXCEPT !.pc = "final_progress",
                                                     !.wait = TRUE, !.progress = p]]
            /\ wq' = Append(wq, WProgress(task[r].job, TaskBy(r), p))
       ELSE Complete(r, task[r])
  /\ UNCHANGED <<db_jobs, db_segs, active_jobs, job_subscribers, queue, start,
                 sub, cancel, emitted, restarts, recovered, del, edit, latest, modelVars>>

TaskFinalProgress(r) ==
  /\ task[r].pc = "final_progress"
  /\ ~task[r].wait
  /\ Complete(r, task[r])
  /\ UNCHANGED <<db_jobs, db_segs, active_jobs, job_subscribers, queue, start,
                 sub, cancel, emitted, restarts, recovered, del, edit, latest, modelVars>>

\* Status COMPLETED is stored: store progress 1.0.
TaskCompleted(r) ==
  /\ task[r].pc = "completed"
  /\ ~task[r].wait
  /\ task' = [task EXCEPT ![r] = [@ EXCEPT !.pc = "completed_progress", !.wait = TRUE]]
  /\ wq' = Append(wq, WProgress(task[r].job, TaskBy(r), ProgressOne))
  /\ UNCHANGED <<db_jobs, db_segs, active_jobs, job_subscribers, queue, start,
                 sub, cancel, emitted, restarts, recovered, del, edit, latest, modelVars>>

\* The final emit of a path, then the finally clause; the task's locals die.
Finish(r, ev) ==
  /\ Emit(task[r].job, ev)
  /\ active_jobs' = [active_jobs EXCEPT ![task[r].job] = "absent"]
  /\ task' = [task EXCEPT ![r] = [IdleTask EXCEPT !.pc = "done", !.job = task[r].job]]
  /\ UNCHANGED <<db_jobs, db_segs, wq, job_subscribers, start, sub, cancel, restarts, recovered, del, edit, latest, modelVars>>

TaskCompletedProgress(r) ==
  /\ task[r].pc = "completed_progress"
  /\ ~task[r].wait
  /\ Finish(r, Event(COMPLETED, ProgressOne, NoSeg, NULL, TRUE))

TaskCanceled(r) ==
  /\ task[r].pc = "canceled"
  /\ ~task[r].wait
  /\ Finish(r, Event(CANCELED, 0, NoSeg, NULL, TRUE))

TaskFailed(r) ==
  /\ task[r].pc = "failed"
  /\ ~task[r].wait
  /\ Finish(r, Event(FAILED, 0, NoSeg, task[r].error, TRUE))

\* ------------------------------------------------------ StreamTranscription
\* db.get_job runs on a reader.
SubLookup(s, j) ==
  /\ sub[s].pc = "idle"
  /\ s > 1 => sub[s - 1].pc # "idle"
  /\ sub' = [sub EXCEPT ![s] = [@ EXCEPT !.pc = "got", !.job = j, !.snap = db_jobs[j],
                                          !.late = \E r \in Runs :
                                                     start[r].pc = "done" /\ start[r].job = j]]
  /\ UNCHANGED <<db_jobs, db_segs, wq, active_jobs, job_subscribers, queue,
                 start, task, cancel, emitted, restarts, recovered, del, edit, latest, modelVars>>

\* The handler resumes with the job row: abort, replay, or subscribe.
SubResume(s) ==
  /\ sub[s].pc = "got"
  /\ LET j == sub[s].job IN
       IF sub[s].snap = NoRow
         THEN /\ sub' = [sub EXCEPT ![s] = [IdleSub EXCEPT !.pc = "aborted", !.job = j]]
              /\ job_subscribers' = job_subscribers
         ELSE IF sub[s].snap.status \in terminal_statuses
           THEN /\ sub' = [sub EXCEPT ![s] = [@ EXCEPT !.pc = "replay", !.mode = "replay"]]
                /\ job_subscribers' = job_subscribers
           ELSE /\ sub' = [sub EXCEPT ![s] = [@ EXCEPT !.pc = "live", !.mode = "live",
                                                       !.snap = NoRow]]
                /\ job_subscribers' = Subscribe(job_subscribers, j, s)
  /\ UNCHANGED <<db_jobs, db_segs, wq, active_jobs, queue, start, task, cancel,
                 emitted, restarts, recovered, del, edit, latest, modelVars>>

\* A replay that leaves out the terminal event.
ReplayEvents_NoTerminal(job, segments) ==
  [i \in 1..Len(segments) |->
     [status |-> job.status, progress |-> job.progress,
      segment |-> [idx |-> segments[i].idx, start |-> segments[i].start,
                   end |-> segments[i].end, text |-> segments[i].text],
      error |-> NULL]]
\* The replayed events: one per stored segment, then the terminal row.
ReplayEvents(job, segments) ==
  [i \in 1..Len(segments) |->
     [status |-> job.status, progress |-> job.progress,
      segment |-> [idx |-> segments[i].idx, start |-> segments[i].start,
                   end |-> segments[i].end, text |-> segments[i].text],
      error |-> NULL]]
  \o <<[status |-> job.status, progress |-> job.progress, segment |-> NoSeg,
        error |-> job.error]>>

\* db.get_segments runs on a reader; the replay is yielded and the call ends.
SubReplay(s) ==
  /\ sub[s].pc = "replay"
  /\ sub' = [sub EXCEPT ![s] = [@ EXCEPT !.pc = "closed", !.snap = NoRow,
                  !.recv = ReplayEvents(sub[s].snap, get_segments(db_segs, sub[s].job))]]
  /\ UNCHANGED <<db_jobs, db_segs, wq, active_jobs, job_subscribers, queue,
                 start, task, cancel, emitted, restarts, recovered, del, edit, latest, modelVars>>

\* queue.get() returns: yield the event, or stop at the sentinel.
SubGet(s) ==
  /\ sub[s].pc = "live"
  /\ queue[s] # <<>>
  /\ queue' = [queue EXCEPT ![s] = Tail(@)]
  /\ IF Head(queue[s]) = None
       THEN /\ sub' = [sub EXCEPT ![s].pc = "closed"]
            /\ job_subscribers' = Unsubscribe(job_subscribers, sub[s].job, s)
       ELSE /\ sub' = [sub EXCEPT ![s].recv = Append(@, Head(queue[s]))]
            /\ job_subscribers' = job_subscribers
  /\ UNCHANGED <<db_jobs, db_segs, wq, active_jobs, start, task, cancel,
                 emitted, restarts, recovered, del, edit, latest, modelVars>>

\* The client goes away: the finally clause unsubscribes.
SubDisconnect(s) ==
  /\ sub[s].pc = "live"
  /\ sub' = [sub EXCEPT ![s] = [IdleSub EXCEPT !.pc = "gone", !.job = sub[s].job]]
  /\ job_subscribers' = Unsubscribe(job_subscribers, sub[s].job, s)
  /\ queue' = [queue EXCEPT ![s] = <<>>]
  /\ UNCHANGED <<db_jobs, db_segs, wq, active_jobs, start, task, cancel,
                 emitted, restarts, recovered, del, edit, latest, modelVars>>

\* ------------------------------------------------------------ GetTranscript
\* The segments GetTranscript returns: db.get_segments as protobuf Segments
\* (edited_text NULL becomes '').
GetTranscript(j) ==
  LET segments == get_segments(db_segs, j) IN
  [i \in 1..Len(segments) |->
     [index |-> segments[i].idx, start |-> segments[i].start,
      end |-> segments[i].end, text |-> segments[i].text,
      edited_text |-> IF segments[i].edited_text = NULL THEN ""
                      ELSE segments[i].edited_text]]

\* ---------------------------------------------------------------- CancelJob
CancelBy(c) == <<"cancel", c>>

\* Engine.cancel_job: flip the flag and store CANCELED when the id is active.
\* Otherwise CancelJob falls back to db.get_job.
CancelJob(c, j) ==
  /\ cancel[c].pc = "idle"
  /\ c > 1 => cancel[c - 1].pc # "idle"
  /\ IF active_jobs[j] # "absent"
       THEN /\ active_jobs' = [active_jobs EXCEPT ![j] = "False"]
            /\ wq' = Append(wq, db_cancel_job(j, CancelBy(c)))
            /\ cancel' = [cancel EXCEPT ![c] = [@ EXCEPT !.pc = "write", !.job = j,
                              !.path = "engine", !.at_call = db_jobs[j].status]]
       ELSE /\ active_jobs' = active_jobs
            /\ wq' = wq
            /\ cancel' = [cancel EXCEPT ![c] = [@ EXCEPT !.pc = "read", !.job = j,
                              !.path = "db", !.at_call = db_jobs[j].status]]
  /\ UNCHANGED <<db_jobs, db_segs, job_subscribers, queue, start, task, sub,
                 emitted, restarts, recovered, del, edit, latest, modelVars>>

\* db.get_job runs on a reader.
CancelRead(c) ==
  /\ cancel[c].pc = "read"
  /\ cancel' = [cancel EXCEPT ![c] = [@ EXCEPT !.pc = "got",
                                               !.snap = db_jobs[cancel[c].job].status]]
  /\ UNCHANGED <<db_jobs, db_segs, wq, active_jobs, job_subscribers, queue,
                 start, task, sub, emitted, restarts, recovered, del, edit, latest, modelVars>>

\* The handler resumes with the row: cancel in the Store, or return False.
CancelResume(c) ==
  /\ cancel[c].pc = "got"
  /\ IF cancel[c].snap \in {QUEUED, RUNNING}
       THEN /\ wq' = Append(wq, db_cancel_job(cancel[c].job, CancelBy(c)))
            /\ cancel' = [cancel EXCEPT ![c].pc = "write"]
       ELSE /\ wq' = wq
            /\ cancel' = [cancel EXCEPT ![c] = [@ EXCEPT !.pc = "done", !.res = FALSE]]
  /\ UNCHANGED <<db_jobs, db_segs, active_jobs, job_subscribers, queue, start,
                 task, sub, emitted, restarts, recovered, del, edit, latest, modelVars>>

\* --------------------------------------------------------------- DeleteJob
\* db.delete_job is awaited; the handler then only returns its result.  The
\* Engine is not told.
DeleteJob(d, j) ==
  /\ del[d].pc = "idle"
  /\ del' = [del EXCEPT ![d] = [pc |-> "write", job |-> j, res |-> FALSE]]
  /\ wq' = Append(wq, WDelete(j, <<"delete", d>>))
  /\ UNCHANGED <<db_jobs, db_segs, active_jobs, job_subscribers, queue, start,
                 task, sub, cancel, emitted, restarts, recovered, edit, latest, modelVars>>

\* ------------------------------------------------------ SaveTranscriptEdits
\* The lists of edits a request carries: at most MaxEdits edits of the first
\* EditIndexes segments, each a text or the empty string.
EditIndexes == {0, 1}
EditTexts == {"", "e1"}
EditOf == [segment_index : EditIndexes, edited_text : EditTexts]
EditLists == UNION {[1..n -> EditOf] : n \in 1..MaxEdits}

\* The handler awaits db.get_job.  The client sends its requests one after
\* the other: the next one when the previous call has returned.
SaveTranscriptEdits(e, j, edits) ==
  /\ edit[e].pc = "idle"
  /\ e > 1 => edit[e - 1].pc = "done"
  /\ edit' = [edit EXCEPT ![e] = [IdleEdit EXCEPT !.pc = "read", !.job = j,
                                                  !.edits = edits]]
  /\ UNCHANGED <<db_jobs, db_segs, wq, active_jobs, job_subscribers, queue, start,
                 task, sub, cancel, emitted, restarts, recovered, del, latest,
                 modelVars>>

\* db.get_job runs on a reader.
EditRead(e) ==
  /\ edit[e].pc = "read"
  /\ edit' = [edit EXCEPT ![e] = [@ EXCEPT !.pc = "got",
                                           !.snap = db_jobs[edit[e].job].status]]
  /\ UNCHANGED <<db_jobs, db_segs, wq, active_jobs, job_subscribers, queue, start,
                 task, sub, cancel, emitted, restarts, recovered, del, latest,
                 modelVars>>

\* The handler resumes with the row: NOT_FOUND without one, else it awaits
\* db.save_segment_edits, which ApplyWrite completes with saved=True.
EditResume(e) ==
  /\ edit[e].pc = "got"
  /\ IF edit[e].snap = NOJOB
       THEN /\ wq' = wq
            /\ edit' = [edit EXCEPT ![e] = [@ EXCEPT !.pc = "done", !.edits = <<>>,
                                                     !.code = "NOT_FOUND"]]
       ELSE /\ wq' = Append(wq, WEdits(edit[e].job, <<"edit", e>>, edit[e].edits))
            /\ edit' = [edit EXCEPT ![e] = [@ EXCEPT !.pc = "write", !.edits = <<>>]]
  /\ UNCHANGED <<db_jobs, db_segs, active_jobs, job_subscribers, queue, start,
                 task, sub, cancel, emitted, restarts, recovered, del, latest,
                 modelVars>>

\* ------------------------------------------------------- model cache calls
\* One call of get, put or clear on the cache; none of them awaits.
CacheGet(key) ==
  /\ entries' = cache_get(entries, key).entries
  /\ ret' = [op |-> "get", key |-> key, model |-> cache_get(entries, key).model]
  /\ UNCHANGED <<current_bytes, budget, loader, loadq, downloadVars, serviceVars>>

CachePut(key, model, estimated_bytes) ==
  /\ LET r == cache_put(entries, current_bytes, budget, key, model, estimated_bytes)
     IN /\ entries' = r.entries
        /\ current_bytes' = r.current_bytes
  /\ ret' = [op |-> "put", key |-> key, model |-> model]
  /\ UNCHANGED <<budget, loader, loadq, downloadVars, serviceVars>>

CacheClear ==
  /\ entries' = <<>>
  /\ current_bytes' = 0
  /\ ret' = [op |-> "clear", key |-> <<>>, model |-> NoModel]
  /\ UNCHANGED <<budget, loader, loadq, downloadVars, serviceVars>>

\* ------------------------------------------------------- _get_or_load_model
\* The call up to its await: a cache hit returns the model, a miss submits
\* _load to the executor.
LoadStart(l, key) ==
  /\ loader[l].pc = "idle"
  /\ l > 1 => loader[l - 1].pc # "idle"
  /\ entries' = cache_get(entries, key).entries
  /\ ret' = [op |-> "get", key |-> key, model |-> cache_get(entries, key).model]
  /\ IF cache_get(entries, key).model # NoModel
       THEN /\ loader' = [loader EXCEPT ![l] =
                            [pc |-> "done", key |-> key,
                             model |-> cache_get(entries, key).model]]
            /\ loadq' = loadq
       ELSE /\ loader' = [loader EXCEPT ![l] =
                            [pc |-> "load", key |-> key, model |-> NoModel]]
            /\ loadq' = Append(loadq, l)
  /\ UNCHANGED <<current_bytes, budget, downloadVars, serviceVars>>

\* The oldest load finished with a model (a new object, from the first
\* constructor or from the CPU retry): the call resumes, puts it in the cache
\* under its cache_key and returns it.
LoadPut(l) ==
  /\ loader[l].pc = "load"
  /\ loadq # <<>> /\ Head(loadq) = l
  /\ loadq' = Tail(loadq)
  /\ \E model \in LoadResults(l, loader[l].key) :
       LET r == cache_put(entries, current_bytes, budget, loader[l].key, model,
                          EstimatedBytes(loader[l].key[1]))
       IN /\ entries' = r.entries
          /\ current_bytes' = r.current_bytes
          /\ ret' = [op |-> "put", key |-> loader[l].key, model |-> model]
          /\ loader' = [loader EXCEPT ![l] = [@ EXCEPT !.pc = "done", !.model = model]]
  /\ UNCHANGED <<budget, downloadVars, serviceVars>>

\* The oldest load raised (also on the CPU retry): the call raises.
LoadRaises(l) ==
  /\ loader[l].pc = "load"
  /\ loadq # <<>> /\ Head(loadq) = l
  /\ loadq' = Tail(loadq)
  /\ loader' = [loader EXCEPT ![l].pc = "raised"]
  /\ UNCHANGED <<entries, current_bytes, budget, ret, downloadVars, serviceVars>>

\* ------------------------------------------------------------ ModelManager
\* is_model_downloaded: the directory exists and is not empty.
is_model_downloaded(dk, m) == dk[m].exists /\ dk[m].files # {}

\* cancel_download: what it returns and the events after it.
cancel_download_result(ad, m) == m \in DOMAIN ad /\ ad[m] # 0
cancel_download_events(ad, ev, m) ==
  IF cancel_download_result(ad, m) THEN [ev EXCEPT ![ad[m]] = TRUE] ELSE ev

RECURSIVE SumSeq(_)
SumSeq(q) == IF q = <<>> THEN 0 ELSE Head(q) + SumSeq(Tail(q))

\* progress_callback(downloaded, total): call_soon_threadsafe(queue.put_nowait).
Callback(t, downloaded, total) ==
  [t EXCEPT !.ready = Append(@, [op |-> "put", downloaded |-> downloaded,
                                  total |-> total, result |-> "none"]),
            !.cbs = Append(@, [downloaded |-> downloaded, total |-> total])]
\* The call returns or raises: the executor completes download_future through
\* the loop.
Completed(t, result) ==
  [t EXCEPT !.pc = "returned", !.result = result,
            !.ready = Append(@, [op |-> "done", downloaded |-> 0, total |-> 0,
                                 result |-> result])]
\* finally: self._active_downloads.pop(model_name, None)
PopActive(ad, m) == [ad EXCEPT ![m] = 0]
\* A download whose call is between its registration and its return.
InFlight(d) == th[d].pc \in {"list", "file", "chunk"}

\* The thread starts download_model_with_progress: the fast path when the
\* model counts as downloaded, else a new event is registered under the name.
ThreadBegin(d) ==
  /\ th[d].pc = "begin"
  /\ IF is_model_downloaded(disk, th[d].name)
       THEN /\ th' = [th EXCEPT ![d] =
                        Completed(Callback(@, EstimatedBytes(th[d].name),
                                           EstimatedBytes(th[d].name)), "ok")]
            /\ UNCHANGED <<cancel_event, active_downloads>>
       ELSE /\ th' = [th EXCEPT ![d].pc = "list"]
            /\ cancel_event' = [cancel_event EXCEPT ![d] = FALSE]
            /\ active_downloads' = [active_downloads EXCEPT ![th[d].name] = d]
  /\ UNCHANGED <<disk, dl, succeeded, cancelret, cacheVars, serviceVars>>

\* list_repo_files returns, or raises; it is called before the try block, so
\* its exception leaves the registration in place.
ThreadList(d) ==
  /\ th[d].pc = "list"
  /\ \/ th' = [th EXCEPT ![d] = [@ EXCEPT !.pc = "file", !.file = 1]]
     \/ th' = [th EXCEPT ![d] = Completed(@, "error")]
  /\ UNCHANGED <<disk, active_downloads, cancel_event, dl, succeeded, cancelret,
                 cacheVars, serviceVars>>

\* except DownloadCanceled: rmtree when the directory exists, raise; finally.
\* (overlap records the other downloads of the model in flight at that time.)
ThreadCanceled(d) ==
  /\ th' = [th EXCEPT ![d] =
              [Completed(@, "canceled") EXCEPT !.overlap =
                 {e \in Downloads \ {d} : th[e].name = th[d].name /\ InFlight(e)}]]
  /\ disk' = [disk EXCEPT ![th[d].name] = NoDir]
  /\ active_downloads' = PopActive(active_downloads, th[d].name)
  /\ UNCHANGED <<cancel_event, dl, succeeded, cancelret, cacheVars, serviceVars>>

\* Top of the file loop: the cancel check, then hf_hub_download creates the
\* file's progress bar, which adds the file's size to total_bytes_all.
ThreadFileOpen(d) ==
  /\ th[d].pc = "file"
  /\ IF cancel_event[d]
       THEN ThreadCanceled(d)
       ELSE /\ th' = [th EXCEPT ![d] =
                        [@ EXCEPT !.pc = "chunk", !.n = 0,
                                  !.total_bytes_all = @ + RepoFiles[th[d].file].size]]
            /\ UNCHANGED <<disk, active_downloads, cancel_event, dl, succeeded,
                           cancelret, cacheVars, serviceVars>>

\* _FileProgress.update(1): the cancel check, then the file's bytes are
\* recorded and the callback gets the sum over the files and total_bytes_all.
ThreadUpdate(d) ==
  /\ th[d].pc = "chunk"
  /\ th[d].n < RepoFiles[th[d].file].size
  /\ IF cancel_event[d]
       THEN ThreadCanceled(d)
       ELSE LET t == th[d]
                fp == [i \in 1..t.file |->
                         IF i = t.file THEN t.n + 1 ELSE t.file_progress[i]]
            IN /\ th' = [th EXCEPT ![d] =
                           Callback([t EXCEPT !.n = t.n + 1, !.file_progress = fp],
                                    SumSeq(fp), t.total_bytes_all)]
               /\ UNCHANGED <<disk, active_downloads, cancel_event, dl, succeeded,
                              cancelret, cacheVars, serviceVars>>

\* hf_hub_download returns: the file is in the model directory; after the
\* last file the call returns output_dir (finally).
ThreadFileDone(d) ==
  /\ th[d].pc = "chunk"
  /\ th[d].n = RepoFiles[th[d].file].size
  /\ disk' = [disk EXCEPT ![th[d].name] =
                 [exists |-> TRUE, files |-> @.files \union {RepoFiles[th[d].file].name}]]
  /\ IF th[d].file < Len(RepoFiles)
       THEN /\ th' = [th EXCEPT ![d] = [@ EXCEPT !.pc = "file", !.file = @ + 1]]
            /\ UNCHANGED <<active_downloads, succeeded>>
       ELSE /\ th' = [th EXCEPT ![d] = Completed(@, "ok")]
            /\ active_downloads' = PopActive(active_downloads, th[d].name)
            /\ succeeded' = [succeeded EXCEPT ![th[d].name] = TRUE]
  /\ UNCHANGED <<cancel_event, dl, cancelret, cacheVars, serviceVars>>

\* hf_hub_download raises something else than DownloadCanceled: finally only.
ThreadRaises(d) ==
  /\ th[d].pc \in {"file", "chunk"}
  /\ th' = [th EXCEPT ![d] = Completed(@, "error")]
  /\ active_downloads' = PopActive(active_downloads, th[d].name)
  /\ UNCHANGED <<disk, cancel_event, dl, succeeded, cancelret, cacheVars, serviceVars>>

\* ----------------------------------------------------------- DownloadModel
\* A DownloadModelProgress message.
Progress(status, downloaded, total) ==
  [status |-> status, downloaded_bytes |-> downloaded, total_bytes |-> total]
Yield(h, msg) == [h EXCEPT !.stream = Append(@, msg)]

\* The message after the loop, from download_future.result().
Terminal(name, future) ==
  CASE future = "ok" -> Progress("COMPLETE", EstimatedBytes(name), EstimatedBytes(name))
    [] future = "canceled" -> Progress("CANCELED", 0, 0)
    [] OTHER -> Progress("FAILED", 0, 0)

\* The call up to its first yield: NOT_FOUND, COMPLETE for a model that
\* counts as downloaded, else STARTING.
DlStart(d, name) ==
  /\ dl[d].pc = "idle"
  /\ d > 1 => dl[d - 1].pc # "idle"
  /\ dl' = [dl EXCEPT ![d] =
              IF name \notin DOMAIN AVAILABLE_MODELS
                THEN [@ EXCEPT !.pc = "aborted", !.name = name]
              ELSE IF is_model_downloaded(disk, name)
                THEN Yield([@ EXCEPT !.pc = "done", !.name = name],
                           Progress("COMPLETE", EstimatedBytes(name), EstimatedBytes(name)))
              ELSE Yield([@ EXCEPT !.pc = "starting", !.name = name],
                         Progress("STARTING", 0, EstimatedBytes(name)))]
  /\ UNCHANGED <<disk, active_downloads, cancel_event, th, succeeded, cancelret,
                 cacheVars, serviceVars>>

\* The client took STARTING: the download is handed to the default executor
\* and the handler waits for a progress item or the end of the download.
DlSubmit(d) ==
  /\ dl[d].pc = "starting"
  /\ dl' = [dl EXCEPT ![d].pc = "wait"]
  /\ th' = [th EXCEPT ![d] = [IdleThread EXCEPT !.pc = "begin", !.name = dl[d].name]]
  /\ UNCHANGED <<disk, active_downloads, cancel_event, succeeded, cancelret,
                 cacheVars, serviceVars>>

\* The event loop runs the oldest callback the thread scheduled: put_nowait of
\* a progress item, or the completion of download_future.
LoopRun(d) ==
  /\ th[d].ready # <<>>
  /\ th' = [th EXCEPT ![d].ready = Tail(@)]
  /\ dl' = [dl EXCEPT ![d] =
              IF Head(th[d].ready).op = "put"
                THEN [@ EXCEPT !.queue = Append(@, Head(th[d].ready))]
                ELSE [@ EXCEPT !.future = Head(th[d].ready).result]]
  /\ UNCHANGED <<disk, active_downloads, cancel_event, succeeded, cancelret,
                 cacheVars, serviceVars>>

\* A handler that skips the drain loop once the download has finished.
Continue_NoDrain(d) ==
  LET h == dl[d] IN
    IF h.future # "pending"
      THEN Yield([h EXCEPT !.pc = "done"], Terminal(h.name, h.future))
    ELSE IF h.queue # <<>>
      THEN Yield([h EXCEPT !.pc = "yield", !.queue = Tail(@)],
                 Progress("DOWNLOADING", Head(h.queue).downloaded, Head(h.queue).total))
    ELSE [h EXCEPT !.pc = "wait"]
\* After a yield inside the try block, or after asyncio.wait: the next
\* progress item is yielded while there is one (get_task, then the drain
\* loop); with none left and the download finished the terminal message is
\* yielded and the handler returns; otherwise the handler waits.
Continue(d) ==
  LET h == dl[d] IN
    IF h.queue # <<>>
      THEN Yield([h EXCEPT !.pc = "yield", !.queue = Tail(@)],
                 Progress("DOWNLOADING", Head(h.queue).downloaded, Head(h.queue).total))
    ELSE IF h.future # "pending"
      THEN Yield([h EXCEPT !.pc = "done"], Terminal(h.name, h.future))
    ELSE [h EXCEPT !.pc = "wait"]

\* asyncio.wait returned: a progress item arrived or the download finished.
DlWake(d) ==
  /\ dl[d].pc = "wait"
  /\ dl[d].queue # <<>> \/ dl[d].future # "pending"
  /\ dl' = [dl EXCEPT ![d] = Continue(d)]
  /\ UNCHANGED <<disk, active_downloads, cancel_event, th, succeeded, cancelret,
                 cacheVars, serviceVars>>

\* The client took a DOWNLOADING message.
DlResume(d) ==
  /\ dl[d].pc = "yield"
  /\ dl' = [dl EXCEPT ![d] = Continue(d)]
  /\ UNCHANGED <<disk, active_downloads, cancel_event, th, succeeded, cancelret,
                 cacheVars, serviceVars>>

\* The client goes away while the handler is suspended.  The exception the
\* handler sees is CancelledError or GeneratorExit, which `except Exception`
\* does not catch, or an Exception raised inside the try block, for which
\* the handler calls cancel_download and awaits the download.
Disconnects == {"CancelledError", "GeneratorExit", "Exception"}
DlDisconnect(d, exc) ==
  /\ dl[d].pc \in {"starting", "wait", "yield"}
  /\ IF exc = "Exception" /\ dl[d].pc # "starting"
       THEN /\ dl' = [dl EXCEPT ![d].pc =
                        IF dl[d].future = "pending" THEN "except" ELSE "closed"]
            /\ cancel_event' =
                 cancel_download_events(active_downloads, cancel_event, dl[d].name)
       ELSE /\ dl' = [dl EXCEPT ![d].pc = "gone"]
            /\ cancel_event' = cancel_event
  /\ UNCHANGED <<disk, active_downloads, th, succeeded, cancelret, cacheVars,
                 serviceVars>>

\* await download_future in the except branch returns or raises.
DlExceptDone(d) ==
  /\ dl[d].pc = "except"
  /\ dl[d].future # "pending"
  /\ dl' = [dl EXCEPT ![d].pc = "closed"]
  /\ UNCHANGED <<disk, active_downloads, cancel_event, th, succeeded, cancelret,
                 cacheVars, serviceVars>>

\* CancelDownload: cancel_download(name) and its result.
CancelDownload(name) ==
  /\ cancelret' = [name |-> name,
                   res |-> cancel_download_result(active_downloads, name),
                   inflight |-> {d \in Downloads : th[d].name = name /\ InFlight(d)}]
  /\ cancel_event' = cancel_download_events(active_downloads, cancel_event, name)
  /\ UNCHANGED <<disk, active_downloads, dl, th, succeeded, cacheVars, serviceVars>>

\* ------------------------------------------------------------------ restart
\* The process dies and is started again: ScribeService.start runs
\* fail_stale_jobs before the transport serves a request.
Restart ==
  /\ restarts < MaxRestarts
  /\ restarts' = restarts + 1
  /\ db_jobs' = fail_stale_jobs(db_jobs)
  /\ recovered' = fail_stale_rowcount(db_jobs)
  /\ del' = [d \in Deletes |-> IF del[d].pc = "off" THEN del[d] ELSE IdleDelete]
  /\ wq' = <<>>
  /\ active_jobs' = [j \in Jobs |-> "absent"]
  /\ job_subscribers' = [j \in Jobs |-> <<>>]
  /\ queue' = [s \in Subs |-> <<>>]
  /\ start' = [r \in Runs |-> IF start[r].pc = "off" THEN start[r] ELSE IdleStart]
  /\ task' = [r \in Runs |-> IdleTask]
  /\ sub' = [s \in Subs |-> IF sub[s].pc = "off" THEN sub[s] ELSE IdleSub]
  /\ cancel' = [c \in Cancels |-> IF cancel[c].pc = "off" THEN cancel[c] ELSE IdleCancel]
  /\ emitted' = [j \in Jobs |-> <<>>]
  /\ edit' = [e \in Edits |-> IF edit[e].pc = "off" THEN edit[e] ELSE IdleEdit]
  /\ UNCHANGED <<db_segs, latest, modelVars>>

\* ----------------------------------------------------------------- shutdown
\* serve() after a shutdown request, at the end of the grace period of
\* server.stop: the RPC handlers are gone, db.close() shuts the executors down
\* (writes already submitted are still applied), serve() returns and
\* asyncio.run cancels the tasks that are left.  A run_job task gets
\* CancelledError at its await, which its `except Exception` does not catch;
\* only its finally clause runs.
Shutdown ==
  /\ \E r \in Runs : start[r].pc # "off"
  /\ start' = [r \in Runs |-> [start[r] EXCEPT !.pc = "off"]]
  /\ sub' = [s \in Subs |-> [sub[s] EXCEPT !.pc = "off"]]
  /\ cancel' = [c \in Cancels |-> [cancel[c] EXCEPT !.pc = "off"]]
  /\ del' = [d \in Deletes |-> [del[d] EXCEPT !.pc = "off"]]
  /\ task' = [r \in Runs |->
                IF task[r].pc \in {"none", "done"} THEN task[r]
                ELSE [task[r] EXCEPT !.pc = "killed", !.wait = FALSE]]
  /\ active_jobs' = [j \in Jobs |->
                       IF \E r \in Runs : task[r].job = j /\ Executing(r)
                         THEN "absent" ELSE active_jobs[j]]
  /\ edit' = [e \in Edits |-> [edit[e] EXCEPT !.pc = "off"]]
  /\ UNCHANGED <<db_jobs, db_segs, wq, job_subscribers, queue, emitted, restarts,
                 recovered, latest, modelVars>>

\* ---------------------------------------------------------- specifications
\* The steps of one job whose batches stay below BatchSize (FlushNext has the
\* steps of a flush inside the loop).  TaskFinalProgress needs a job with a
\* positive audio_duration in the segment loop, which does not occur (see
\* TaskAcquire), so it is not a disjunct.
\* The steps of a job nobody cancels.
RunNextOn(AudiosOn, SegsOn) ==
  \/ ApplyWrite
  \/ \E r \in Runs, j \in Jobs, lang \in TargetLangs, a \in AudiosOn :
       StartTranscription(r, j, lang, a)
  \/ \E r \in Runs : StartResume(r)
  \/ \E r \in Runs : TaskStart(r)
  \/ \E r \in Runs : TaskRunning(r)
  \/ \E r \in Runs : TaskAcquire(r)
  \/ \E r \in Runs : TaskSegment(r, SegsOn[r])
  \/ \E r \in Runs : TaskSegmentRaises(r)
  \/ \E r \in Runs : TaskStreamEnd(r)
  \/ \E r \in Runs : TaskFinalFlush(r)
  \/ \E r \in Runs : TaskCompleted(r)
  \/ \E r \in Runs : TaskCompletedProgress(r)
  \/ \E r \in Runs : TaskFailed(r)

JobNextOn(AudiosOn, SegsOn) ==
  \/ RunNextOn(AudiosOn, SegsOn)
  \/ \E r \in Runs : TaskCanceled(r)

JobNext == JobNextOn({GoodAudio}, [r \in Runs |-> MaxSegs])

\* A batch of BatchSize segments is flushed inside the loop.
FlushNext ==
  \/ \E r \in Runs : TaskFlush(r)
  \/ \E r \in Runs : TaskFlushProgress(r)

DeleteNext ==
  \E d \in Deletes, j \in Jobs : DeleteJob(d, j)

EditNext ==
  \/ \E e \in Edits, j \in Jobs, edits \in EditLists : SaveTranscriptEdits(e, j, edits)
  \/ \E e \in Edits : EditRead(e)
  \/ \E e \in Edits : EditResume(e)

SubNext ==
  \/ \E s \in Subs, j \in Jobs : SubLookup(s, j)
  \/ \E s \in Subs : SubResume(s)
  \/ \E s \in Subs : SubReplay(s)
  \/ \E s \in Subs : SubGet(s)
  \/ \E s \in Subs : SubDisconnect(s)

CancelNext ==
  \/ \E c \in Cancels, j \in Jobs : CancelJob(c, j)
  \/ \E c \in Cancels : CancelRead(c)
  \/ \E c \in Cancels : CancelResume(c)

\* Streaming: one job, two subscribers, one cancelling client.
Init == InitWith({1, 2}, {1})
Next == JobNext \/ SubNext \/ CancelNext
Spec == Init /\ [][Next]_vars

\* Cancellation: one job, two cancelling clients, no subscriber.
InitCancel == InitWith({}, {1, 2})
NextCancel == JobNext \/ CancelNext
SpecCancel == InitCancel /\ [][NextCancel]_vars

\* Cancellation and startup recovery.
NextRestart == NextCancel \/ Restart
SpecRestart == InitCancel /\ [][NextRestart]_vars

\* Submission: two StartTranscription calls with any request, one cancelling
\* client.
InitSubmit == InitOn({}, {1}, {}, {1, 2})
NextSubmit == JobNextOn(Audios, [r \in Runs |-> MaxSegs]) \/ CancelNext
SpecSubmit == InitSubmit /\ [][NextSubmit]_vars

\* Deletion and re-submission: a first submission long enough to flush a
\* batch, a second one with the same job id, one DeleteJob and one CancelJob
\* call.
InitDelete == InitOn({}, {1}, {1}, {1, 2})
SegsDelete == [r \in Runs |-> IF r = 1 THEN MaxSegsBatch ELSE MaxSegsResubmit]
NextDelete == JobNextOn({GoodAudio}, SegsDelete) \/ FlushNext \/ CancelNext \/ DeleteNext
SpecDelete == InitDelete /\ [][NextDelete]_vars

\* Deletion of one job in any status: a submission long enough to flush a
\* batch, one cancelling client, one DeleteJob call.
InitErase == InitOn({}, {1}, {1}, {1})
NextErase ==
  JobNextOn({GoodAudio}, [r \in Runs |-> MaxSegsBatch]) \/ FlushNext \/ CancelNext
    \/ DeleteNext
SpecErase == InitErase /\ [][NextErase]_vars

\* Editing: one job of MaxSegs segments that nobody cancels and two
\* SaveTranscriptEdits calls.
InitEdits ==
  /\ ServiceInitOn({}, {}, {}, {1}, {1, 2})
  /\ ModelsInit({ModelCacheBudget}, {})
NextEdits == RunNextOn({GoodAudio}, [r \in Runs |-> MaxSegs]) \/ EditNext
SpecEdits == InitEdits /\ [][NextEdits]_vars

\* Batching: one job long enough to flush a full batch and a remainder, one
\* cancelling client.
InitBatch == InitOn({}, {1}, {}, {1})
NextBatch ==
  JobNextOn({GoodAudio}, [r \in Runs |-> MaxSegsBatch]) \/ FlushNext \/ CancelNext
SpecBatch == InitBatch /\ [][NextBatch]_vars

\* Shutdown: one job, one subscriber, one cancelling client, and the server
\* is stopped at any time.
InitShutdown == InitOn({1}, {1}, {}, {1})
NextShutdown == JobNext \/ SubNext \/ CancelNext \/ Shutdown
SpecShutdown == InitShutdown /\ [][NextShutdown]_vars

\* The model cache alone: any sequence of get, put and clear.
InitCache == ServiceInit({}, {}, {}, {}) /\ ModelsInit(Budgets, {})
NextCache ==
  \/ \E key \in CacheKeys : CacheGet(key)
  \/ \E key \in CacheKeys, model \in Models, estimated_bytes \in Sizes :
       CachePut(key, model, estimated_bytes)
  \/ CacheClear
SpecCache == InitCache /\ [][NextCache]_vars

\* Concurrent _get_or_load_model calls.
InitLoad == ServiceInit({}, {}, {}, {}) /\ ModelsInit(LoadBudgets, Loaders)
NextLoad ==
  \/ \E l \in Loaders, key \in CacheKeys : LoadStart(l, key)
  \/ \E l \in Loaders : LoadPut(l)
  \/ \E l \in Loaders : LoadRaises(l)
SpecLoad == InitLoad /\ [][NextLoad]_vars

\* Model downloads: two overlapping DownloadModel calls and CancelDownload
\* calls, with clients that stay.
ThreadNext ==
  \/ \E d \in Downloads : ThreadBegin(d)
  \/ \E d \in Downloads : ThreadList(d)
  \/ \E d \in Downloads : ThreadFileOpen(d)
  \/ \E d \in Downloads : ThreadUpdate(d)
  \/ \E d \in Downloads : ThreadFileDone(d)
  \/ \E d \in Downloads : ThreadRaises(d)
  \/ \E d \in Downloads : LoopRun(d)
HandlerNext ==
  \/ \E d \in Downloads, name \in RequestNames : DlStart(d, name)
  \/ \E d \in Downloads : DlSubmit(d)
  \/ \E d \in Downloads : DlWake(d)
  \/ \E d \in Downloads : DlResume(d)
  \/ \E name \in RequestNames : CancelDownload(name)
DisconnectNext ==
  \/ \E d \in Downloads, exc \in Disconnects : DlDisconnect(d, exc)
  \/ \E d \in Downloads : DlExceptDone(d)

InitDownload == ServiceInit({}, {}, {}, {}) /\ CacheInit({ModelCacheBudget}, {})
                  /\ DownloadInit(Downloads)
NextDownload == ThreadNext \/ HandlerNext
SpecDownload == InitDownload /\ [][NextDownload]_vars

\* One DownloadModel call, CancelDownload calls, and a client that may go
\* away.
InitStream == ServiceInit({}, {}, {}, {}) /\ CacheInit({ModelCacheBudget}, {})
                /\ DownloadInit({1})
NextStream == ThreadNext \/ HandlerNext \/ DisconnectNext
SpecStream == InitStream /\ [][NextStream]_vars

\* ------------------------------------------------------------------ claims
\* The run_job task of job j, where at most one call was made for the id j.
TaskOf(j) ==
  IF \E r \in Runs : task[r].job = j
    THEN task[CHOOSE r \in Runs : task[r].job = j]
    ELSE IdleTask
Last(seq) == seq[Len(seq)]
ProtoSeq(evs) == [i \in 1..Len(evs) |-> ToProto(evs[i])]
IsSuffix(a, b) == Len(a) <= Len(b) /\ a = SubSeq(b, Len(b) - Len(a) + 1, Len(b))
NoNone(q) == SelectSeq(q, LAMBDA e : e # None)
HasNone(q) == \E i \in 1..Len(q) : q[i] = None
\* The segment payloads of the events run_job emitted for j, in order.
EmittedSegments(j) ==
  LET withSeg == SelectSeq(emitted[j], LAMBDA e : e.segment # NoSeg)
  IN [i \in 1..Len(withSeg) |-> withSeg[i].segment]
\* (idx, start, end, text) of the segments GetTranscript returns.
TranscriptSegments(j) ==
  [i \in 1..Len(GetTranscript(j)) |->
     [idx |-> GetTranscript(j)[i].index, start |-> GetTranscript(j)[i].start,
      end |-> GetTranscript(j)[i].end, text |-> GetTranscript(j)[i].text]]

\* C1: every StreamTranscription subscription of an accepted job ends with a
\* terminal event and end-of-stream; none waits forever.  Stated on finite
\* runs: once run_job has returned nothing is published for the job any more,
\* so no subscription may then be waiting on an empty queue.
C1_NoSubscriptionWaitsForever ==
  \A s \in Subs :
    ~(sub[s].pc = "live" /\ queue[s] = <<>> /\ TaskOf(sub[s].job).pc = "done")

\* C2: run_job publishes exactly one terminal event (COMPLETED, FAILED or
\* CANCELED, marked final); it is the last event of the job, the sentinel
\* follows it at once on every subscriber queue, and nothing is published
\* after it.
C2_OneTerminalEventLast ==
  [][\A j \in Jobs :
       /\ emitted'[j] # emitted[j] =>
            /\ emitted[j] = <<>> \/ ~Last(emitted[j]).final
            /\ emitted'[j] = Append(emitted[j], Last(emitted'[j]))
            /\ Last(emitted'[j]).final <=> Last(emitted'[j]).status \in terminal_statuses
            /\ Last(emitted'[j]).final <=> TaskOf(j)'.pc = "done"
            /\ \A s \in Subs :
                 InList(s, job_subscribers[j]) =>
                   queue'[s] = queue[s] \o
                     (IF Last(emitted'[j]).final
                        THEN <<ToProto(Last(emitted'[j])), None>>
                        ELSE <<ToProto(Last(emitted'[j]))>>)
       /\ TaskOf(j)'.pc = "done" => emitted'[j] # <<>> /\ Last(emitted'[j]).final
       /\ \A s \in Subs :
            HasNone(queue'[s]) =>
              /\ Last(queue'[s]) = None
              /\ ~HasNone(SubSeq(queue'[s], 1, Len(queue'[s]) - 1))
    ]_vars
\* A subscriber received RUNNING, a segment and the terminal event, then the
\* sentinel closed its stream.
C2_Witness ==
  \E s \in Subs :
    /\ sub[s].pc = "closed" /\ sub[s].mode = "live"
    /\ Len(sub[s].recv) >= 3
    /\ Last(sub[s].recv).status \in terminal_statuses
    /\ TaskOf(sub[s].job).pc = "done"

\* C3: every change of a job's persisted status follows QUEUED -> RUNNING,
\* RUNNING -> {COMPLETED, FAILED, CANCELED}, QUEUED -> {FAILED, CANCELED};
\* a terminal status never changes.
AllowedTransitions ==
  {<<NOJOB, QUEUED>>, <<QUEUED, RUNNING>>,
   <<RUNNING, COMPLETED>>, <<RUNNING, FAILED>>, <<RUNNING, CANCELED>>,
   <<QUEUED, FAILED>>, <<QUEUED, CANCELED>>}
C3_StatusTransitions ==
  [][\A j \in Jobs :
       db_jobs'[j].status # db_jobs[j].status =>
         <<db_jobs[j].status, db_jobs'[j].status>> \in AllowedTransitions]_vars

\* C4: what a live subscriber has been sent (received plus still queued) is
\* always a contiguous suffix of the events run_job emitted so far, in the
\* same order and without duplicates; so what it received is a contiguous
\* run of them, and the whole suffix once its stream has ended.
C4_ContiguousSuffix ==
  \A s \in Subs :
    sub[s].mode = "live" /\ sub[s].pc \in {"live", "closed"} =>
      /\ IsSuffix(sub[s].recv \o NoNone(queue[s]), ProtoSeq(emitted[sub[s].job]))
      /\ ~HasNone(sub[s].recv)
      /\ \A a, b \in 1..Len(sub[s].recv) : a # b => sub[s].recv[a] # sub[s].recv[b]
      /\ sub[s].pc = "closed" => queue[s] = <<>>
\* Two live subscribers that joined at different times, one with the whole
\* stream of a job with two segments, the other with a proper suffix.
C4_Witness ==
  \E s, r \in Subs :
    /\ sub[s].pc = "closed" /\ sub[s].mode = "live"
    /\ sub[r].mode = "live" /\ sub[r].pc \in {"live", "closed"}
    /\ sub[s].job = sub[r].job
    /\ Len(sub[s].recv) = 4
    /\ Len(sub[r].recv) \in 1..3

\* C5: once the terminal event of a job has been published, GetTranscript
\* returns exactly the segments that were emitted as segment events.
C5_TranscriptIsWhatWasStreamed ==
  \A j \in Jobs : TaskOf(j).pc = "done" => TranscriptSegments(j) = EmittedSegments(j)

\* C6: CancelJob while run_job is executing: at most one more segment is
\* consumed, the persisted status ends CANCELED and the terminal event is
\* CANCELED; the job never ends COMPLETED.  "Executing" is taken narrowly:
\* the job is active in the Engine and persisted as RUNNING at the call; runs
\* in which run_job fails are left aside.
C6_CancelWhileRunning ==
  [][\A j \in Jobs :
       /\ active_jobs[j] = "False"
            /\ TaskOf(j)'.segment_count > TaskOf(j).segment_count
            => TaskOf(j)'.pc = "canceled"
       /\ \A c \in Cancels :
            cancel'[c].path = "engine" /\ cancel'[c].job = j
              /\ cancel'[c].at_call = RUNNING
              /\ cancel'[c].pc = "done" /\ TaskOf(j)'.pc = "done"
              /\ Last(emitted'[j]).status # FAILED =>
                /\ db_jobs'[j].status = CANCELED
                /\ Last(emitted'[j]).status = CANCELED
    ]_vars

\* C7: CancelJob called for a job that is persisted as QUEUED and whose
\* run_job has not started (the job is not active in the Engine), and that
\* CancelJob's Store lookup still reads as QUEUED or RUNNING, stores CANCELED
\* for it and reports canceled=true.
C7_CancelQueued ==
  [][\A c \in Cancels :
       cancel[c].path = "db" /\ cancel[c].at_call = QUEUED
         /\ cancel[c].snap \in {QUEUED, RUNNING}
         /\ cancel[c].pc # "done" /\ cancel'[c].pc = "done" =>
           /\ cancel[c].pc = "write"
           /\ cancel'[c].res = TRUE
           /\ db_jobs'[cancel[c].job].status = CANCELED
    ]_vars
\* A job cancelled while QUEUED, before its run_job task started.
C7_Witness ==
  \E c \in Cancels :
    /\ cancel[c].pc = "done" /\ cancel[c].path = "db"
    /\ cancel[c].at_call = QUEUED /\ cancel[c].snap = QUEUED
    /\ cancel[c].res = TRUE
    /\ db_jobs[cancel[c].job].status = CANCELED
    /\ TaskOf(cancel[c].job).pc \in {"none", "start"}
\* C7 as stated, on the state at the call alone: every CancelJob called for
\* a job persisted as QUEUED whose run_job has not started reports
\* canceled=true.
C7_CancelQueuedAtCall ==
  \A c \in Cancels :
    cancel[c].pc = "done" /\ cancel[c].path = "db" /\ cancel[c].at_call = QUEUED
      => cancel[c].res = TRUE

\* C8: CancelJob on a job whose persisted status is already COMPLETED,
\* FAILED or CANCELED is a no-op: row and segments unchanged, no event.
C8_CancelTerminalIsNoOp ==
  [][\A c \in Cancels :
       cancel[c].at_call \in terminal_statuses /\ cancel[c].pc # "done"
         /\ cancel'[c].pc = "done" =>
           /\ db_jobs'[cancel[c].job] = db_jobs[cancel[c].job]
           /\ db_segs' = db_segs
           /\ emitted' = emitted
    ]_vars

\* C9: CancelJob returns true iff the job was QUEUED or RUNNING at the call
\* and got canceled (its final status and terminal event are CANCELED); it
\* returns false for unknown and terminal jobs.  (Runs in which run_job
\* fails are left aside.)
C9_CancelResult ==
  \A c \in Cancels :
    cancel[c].pc = "done" =>
      /\ cancel[c].res /\ TaskOf(cancel[c].job).pc = "done"
           /\ Last(emitted[cancel[c].job]).status # FAILED =>
           /\ db_jobs[cancel[c].job].status = CANCELED
           /\ Last(emitted[cancel[c].job]).status = CANCELED
      /\ cancel[c].at_call \in terminal_statuses => ~cancel[c].res

\* C10: the first event delivered on a subscription opened after
\* StartTranscription returned is the RUNNING transition, without a segment.
\* Stated for the jobs whose run_job did publish the RUNNING transition.
C10_FirstEventIsRunning ==
  \A s \in Subs :
    /\ sub[s].late /\ sub[s].recv # <<>>
    /\ emitted[sub[s].job] # <<>>
    /\ emitted[sub[s].job][1].status = RUNNING
    => sub[s].recv[1].status = RUNNING /\ sub[s].recv[1].segment = NoSeg

\* The segment events among the events a subscription has received.
SegmentEvents(evs) == SelectSeq(evs, LAMBDA e : e.segment # NoSeg)

\* C11: on every subscription the segment events delivered carry consecutive
\* increasing idx values, and once run_job has returned every idx delivered
\* is the idx of a segment stored for the job.
C11_DeliveredSegmentsAreStored ==
  \A s \in Subs :
    sub[s].job \in Jobs =>
      LET segs == SegmentEvents(sub[s].recv)
          j == sub[s].job
      IN /\ \A i \in 1..(Len(segs) - 1) :
              segs[i + 1].segment.idx = segs[i].segment.idx + 1
         /\ TaskOf(j).pc = "done" =>
              \A i \in 1..Len(segs) :
                \E k \in 1..Len(db_segs[j]) : db_segs[j][k].idx = segs[i].segment.idx

\* C13: a subscription whose job lookup found a terminal status is served by
\* replay: one segment event per stored segment of the job, in ascending idx
\* and with the stored idx, start, end and text, then exactly one event
\* without segment carrying the status found and the job's error, then
\* end-of-stream; it is never subscribed to live events.
C13_ReplayOrder ==
  [][\A s \in Subs :
       /\ sub[s].pc = "got" /\ sub[s].snap.status \in terminal_statuses
            /\ sub'[s] # sub[s] =>
            /\ sub'[s].pc = "replay"
            /\ job_subscribers' = job_subscribers
       /\ sub[s].pc = "replay" /\ sub'[s] # sub[s] =>
            LET r == sub'[s].recv
                n == Len(db_segs[sub[s].job])
            IN /\ sub'[s].pc = "closed"
               /\ Len(r) = n + 1
               /\ \A i \in 1..n :
                    /\ \E k \in 1..n :
                         /\ r[i].segment.idx = db_segs[sub[s].job][k].idx
                         /\ r[i].segment.start = db_segs[sub[s].job][k].start
                         /\ r[i].segment.end = db_segs[sub[s].job][k].end
                         /\ r[i].segment.text = db_segs[sub[s].job][k].text
                    /\ i < n => r[i].segment.idx < r[i + 1].segment.idx
               /\ r[n + 1].segment = NoSeg
               /\ r[n + 1].status = sub[s].snap.status
               /\ r[n + 1].status \in terminal_statuses
               /\ r[n + 1].error = sub[s].snap.error
    ]_vars
\* A replay of a COMPLETED job with two stored segments.
C13_Witness ==
  \E s \in Subs :
    /\ sub[s].pc = "closed" /\ sub[s].mode = "replay"
    /\ Len(sub[s].recv) = 3
    /\ sub[s].recv[3].status = COMPLETED
    /\ sub[s].recv[1].segment.idx = 0 /\ sub[s].recv[2].segment.idx = 1

\* C14: a replay is served only when the Engine publishes nothing further
\* for the job: when a subscription has been served by replay, the job's
\* terminal event has already been published.
C14_ReplayOnlyAfterTerminalEvent ==
  \A s \in Subs :
    sub[s].mode = "replay" /\ sub[s].pc = "closed" =>
      /\ emitted[sub[s].job] # <<>>
      /\ Last(emitted[sub[s].job]).final

\* C15: a restart leaves, before any request is served, every job that was
\* QUEUED or RUNNING as FAILED with the fixed error (its other columns
\* untouched), returns the number of these jobs from fail_stale_jobs, and
\* changes no segment row and no job that was already terminal.
C15_StartupRecovery ==
  [][restarts' # restarts =>
       /\ \A j \in Jobs :
            IF db_jobs[j].status \in {QUEUED, RUNNING}
              THEN /\ db_jobs'[j].status = FAILED
                   /\ db_jobs'[j].error = "Server restarted while job was in progress"
                   /\ db_jobs'[j].progress = db_jobs[j].progress
              ELSE db_jobs'[j] = db_jobs[j]
       /\ recovered' = Cardinality({j \in Jobs : db_jobs'[j] # db_jobs[j]})
       /\ db_segs' = db_segs
       /\ \A r \in Runs : start'[r].pc \in {"idle", "off"} /\ task'[r].pc = "none"
       /\ \A c \in Cancels : cancel'[c].pc \in {"idle", "off"}
    ]_vars
\* A job that was RUNNING with two stored segments at the crash is found
\* FAILED with the fixed error after the restart, its segments kept.
C15_Witness ==
  /\ restarts = 1 /\ recovered = 1
  /\ db_jobs[1].status = FAILED
  /\ db_jobs[1].error = StaleError
  /\ Len(db_segs[1]) = 2
  /\ \A r \in Runs : task[r].pc = "none"

\* C16: when something raised inside run_job (its terminal event is FAILED
\* with a "Transcription failed" message) the job ends with the persisted
\* status FAILED and that message in its error field.
C16_ExceptionFailsTheJob ==
  \A r \in Runs :
    /\ task[r].pc = "done"
    /\ Last(emitted[task[r].job]).status = FAILED
    /\ Last(emitted[task[r].job]).error \in
         {"Transcription failed",
          "Transcription failed: Unsupported translation language"}
    => /\ db_jobs[task[r].job].status = FAILED
       /\ db_jobs[task[r].job].error = Last(emitted[task[r].job]).error

\* The four cases of C17: a relative path, a path resolving inside a blocked
\* system prefix, an unsupported extension, a path that is not a regular file.
RejectedPath(a) ==
  LET resolved == Resolve(a.parts) IN
    \/ ~a.abs
    \/ resolved # <<>> /\ resolved[1].stem \in BlockedPrefixes
    \/ Lower(Suffix(resolved)) \notin AllowedExtensions
    \/ resolved \notin RegularFiles

\* C17: a StartTranscription call whose file_path is relative, resolves inside
\* a blocked system prefix, has an unsupported extension or is not a regular
\* file is aborted with INVALID_ARGUMENT in the same step, and that step
\* creates no job row, submits no write, starts no task and publishes no
\* event; the call does nothing afterwards.
C17_InvalidPathRejected ==
  [][\A r \in Runs :
       /\ start[r].pc = "idle" /\ start'[r].pc # "idle"
            /\ start'[r].audio.has_file_path /\ RejectedPath(start'[r].audio)
          => /\ start'[r].pc = "invalid"
             /\ start'[r].code = "INVALID_ARGUMENT"
             /\ UNCHANGED <<db_jobs, db_segs, wq, active_jobs, job_subscribers,
                            queue, task, emitted>>
       /\ start[r].pc = "invalid"
          => start'[r] = start[r] /\ task'[r].pc = "none"
    ]_vars
C17_Witness ==
  /\ start[1].pc = "invalid"
  /\ start[1].audio =
       Audio(TRUE, <<F("home", ""), Up, F("etc", ""), F("s", ".wav")>>)
  /\ start[1].details = "Access denied: path is inside a system directory"
  /\ start[2].pc = "invalid"
  /\ start[2].audio = Audio(TRUE, <<F("home", ""), F("d", ".wav")>>)
  /\ start[2].details = "Audio file not found"
  /\ db_jobs[1] = NoRow
  /\ emitted[1] = <<>>
  /\ \A r \in Runs : task[r].pc = "none"

\* C18: a submission asking for translation to an unsupported language is
\* rejected by StartTranscription: no run_job task exists for it (and so no
\* row was persisted for it and nothing executes).
C18_UnsupportedLanguageRejected ==
  \A r \in Runs :
    task[r].lang \notin SupportedTranslationLanguages \union {NULL}
      => task[r].pc = "none"

\* C19: in every state of the store a job row has its error set exactly when
\* its status is FAILED.
C19_ErrorIffFailed ==
  \A j \in Jobs :
    db_jobs[j] # NoRow => (db_jobs[j].error # NULL <=> db_jobs[j].status = FAILED)

\* C20: a job observed in a terminal status has persisted progress 1.0 exactly
\* when the status is COMPLETED.  Stated for observations made when no write
\* is pending and no run_job task is running.
C20_ProgressOneIffCompleted ==
  (wq = <<>> /\ \A r \in Runs : task[r].pc \in {"none", "done"})
    => \A j \in Jobs :
         db_jobs[j] # NoRow /\ db_jobs[j].status \in terminal_statuses
           => (db_jobs[j].progress = ProgressOne <=> db_jobs[j].status = COMPLETED)

\* C12: in every state the idx values of the segments stored for a job are
\* exactly 0 .. n-1 for the number n of its stored segments (so no idx is
\* stored twice and none is missing).
C12_StoredIdxDense ==
  \A j \in Jobs :
    {db_segs[j][k].idx : k \in 1..Len(db_segs[j])} = 0..(Len(db_segs[j]) - 1)

\* C21: a job whose audio has a known positive duration D goes on to the
\* segment loop once D is known (where it emits one RUNNING event per segment
\* with progress min(end / D, 1.0) and then COMPLETED with progress 1.0): the
\* step in which run_job learns D is not a step into its except branch.
C21_KnownDurationRuns ==
  [][\A r \in Runs :
       task[r].pc = "acquire" /\ task'[r].audio_duration > 0
         => task'[r].pc \in {"next", "canceled"}
    ]_vars

RECURSIVE SumBytes(_)
SumBytes(es) == IF es = <<>> THEN 0 ELSE Head(es).bytes + SumBytes(Tail(es))

\* C22: after any sequence of get, put and clear the estimated bytes of the
\* cached entries sum to at most the budget, or the cache holds exactly one
\* entry.
C22_BudgetOrOneEntry ==
  SumBytes(entries) <= budget \/ Len(entries) = 1
C22_Witness ==
  /\ ret.op = "put"
  /\ budget = 100
  /\ Len(entries) = 1
  /\ entries[1].bytes = 120

\* C23: put(k) drops the old entry of k, then removes the n least recently
\* used of the other entries, where n is the least number that makes the rest
\* plus the new entry fit the budget (all of them if nothing does), and adds
\* the new entry as most recently used; a get hit returns the model and makes
\* the key most recently used; a get miss returns None and changes nothing.
C23_ByteBudgetedLRU ==
  [][/\ ret'.op = "put" =>
          LET E == WithoutKey(entries, ret'.key)
              new == Last(entries')
          IN /\ new.key = ret'.key /\ new.model = ret'.model
             /\ \E n \in 0..Len(E) :
                  /\ entries' = Append(SubSeq(E, n + 1, Len(E)), new)
                  /\ n > 0 => SumBytes(SubSeq(E, n, Len(E))) + new.bytes > budget
                  /\ n < Len(E) => SumBytes(SubSeq(E, n + 1, Len(E))) + new.bytes <= budget
     /\ ret'.op = "get" =>
          /\ current_bytes' = current_bytes
          /\ IF HasKey(entries, ret'.key)
               THEN /\ ret'.model = EntryOf(entries, ret'.key).model
                    /\ entries' = Append(WithoutKey(entries, ret'.key),
                                         EntryOf(entries, ret'.key))
               ELSE /\ ret'.model = NoModel
                    /\ entries' = entries
    ]_vars
\* Budget 100, an entry of 80 was put after another: only the second is
\* cached and a get of the first key missed.
C23_Witness ==
  /\ budget = 100
  /\ ret = [op |-> "get", key |-> <<"tiny", "cpu", "int8">>, model |-> NoModel]
  /\ entries = <<Entry(<<"base", "cpu", "int8">>, "m2", 80)>>
  /\ current_bytes = 80

\* C24: cache operations of concurrent _get_or_load_model calls do not
\* interleave (a step is one whole get or put of one call), each key has at
\* most one entry and the byte counter equals the sum of the entries' bytes.
C24_CacheOpsExclusive ==
  [][/\ Cardinality({l \in Loaders : loader'[l] # loader[l]}) <= 1
     /\ \A i, k \in 1..Len(entries') : entries'[i].key = entries'[k].key => i = k
     /\ current_bytes' = SumBytes(entries')
    ]_vars
\* Two calls for the same key both missed and both loaded; the cache holds
\* the model of the second.
C24_Witness ==
  /\ loader[1] = [pc |-> "done", key |-> <<"base", "cpu", "int8">>, model |-> "m1"]
  /\ loader[2] = [pc |-> "done", key |-> <<"base", "cpu", "int8">>, model |-> "m2"]
  /\ entries = <<Entry(<<"base", "cpu", "int8">>, "m2", 74)>>
  /\ current_bytes = 74

\* C25: when a download of a model ended as canceled and every other
\* download of the model was already in flight at that time (none started
\* later), no directory that counts as downloaded remains for the model.
C25_CanceledLeavesNoDirectory ==
  \A d \in Downloads :
    (/\ th[d].result = "canceled"
     /\ \A e \in Downloads \ {d} : th[e].name = th[d].name => e \in th[d].overlap)
      => ~is_model_downloaded(disk, th[d].name)

\* C26: cancel_download(m) returns true exactly when a download of m is in
\* flight at the call.
C26_CancelTrueIffInFlight ==
  cancelret.name # "none" => (cancelret.res <=> cancelret.inflight # {})

\* A handler that found the model not downloaded (it went past the fast path).
Started(d) ==
  \/ dl[d].pc \in {"starting", "wait", "yield"}
  \/ dl[d].pc = "done" /\ th[d].pc # "idle"
TerminalStatus == {"COMPLETE", "CANCELED", "FAILED"}
\* C27: the stream of a DownloadModel call that found the model not
\* downloaded is STARTING, then the progress callbacks as DOWNLOADING events
\* in callback order, then, when the handler has returned, one terminal
\* event that follows the event of every callback and fits the way the
\* download ended; nothing follows the terminal event.
C27_StreamShape ==
  \A d \in Downloads :
    Started(d) =>
      LET s == dl[d].stream
          cbs == th[d].cbs
      IN /\ s # <<>>
         /\ s[1] = Progress("STARTING", 0, EstimatedBytes(dl[d].name))
         /\ \A i \in 2..Len(s) :
              \/ /\ i - 1 <= Len(cbs)
                 /\ s[i] = Progress("DOWNLOADING", cbs[i - 1].downloaded, cbs[i - 1].total)
              \/ /\ i = Len(s)
                 /\ dl[d].pc = "done"
                 /\ th[d].pc = "returned"
                 /\ Len(s) = Len(cbs) + 2
                 /\ s[i].status = (CASE th[d].result = "ok" -> "COMPLETE"
                                     [] th[d].result = "canceled" -> "CANCELED"
                                     [] OTHER -> "FAILED")
         /\ dl[d].pc = "done" => Last(s).status \in TerminalStatus
\* A download of two files gave three callbacks and succeeded: STARTING,
\* three DOWNLOADING, COMPLETE.
C27_Witness ==
  /\ dl[1].pc = "done"
  /\ Len(th[1].cbs) = 3
  /\ Len(dl[1].stream) = 5
  /\ dl[1].stream[1].status = "STARTING"
  /\ \A i \in 2..4 : dl[1].stream[i].status = "DOWNLOADING"
  /\ dl[1].stream[5].status = "COMPLETE"

\* C28: over the progress callbacks of one download downloaded_bytes never
\* decreases and total_bytes never changes.
C28_ProgressMonotoneTotalStable ==
  \A d \in Downloads :
    \A i, k \in 1..Len(th[d].cbs) :
      i < k => /\ th[d].cbs[i].downloaded <= th[d].cbs[k].downloaded
               /\ th[d].cbs[i].total = th[d].cbs[k].total

\* C29: when the client of a DownloadModel stream goes away while its
\* download is in flight, the download's cancel event is set in that step.
C29_DisconnectCancels ==
  [][\A d \in Downloads :
       (/\ dl[d].pc \in {"wait", "yield"}
        /\ dl'[d].pc \in {"gone", "except", "closed"}
        /\ InFlight(d))
         => cancel_event'[d]
    ]_vars

\* C30: a model counts as downloaded only after a download of it returned
\* successfully.
C30_PartialNeverDownloaded ==
  \A m \in DownloadNames : is_model_downloaded(disk, m) => succeeded[m]

C32_DeletedIffRowExisted ==
  [][\A d \in Deletes :
       del[d].pc = "write" /\ del'[d].pc = "done"
         => (del'[d].res <=> db_jobs[del[d].job] # NoRow)
    ]_vars

\* C38: once a job's row was deleted while its run_job executed, no write of
\* that task adds a segment row or changes a job row.
C38_NoWriteAfterDelete ==
  [][\A r \in Runs :
       (/\ wq # <<>> /\ wq' = Tail(wq)
        /\ Head(wq).by = <<"task", r>>
        /\ task[r].deleted)
         => db_segs' = db_segs /\ db_jobs' = db_jobs
    ]_vars

\* C37: once the terminal event of a job has been published, the job's
\* persisted status is the status that event carries.
C37_StoreAgreesWithTerminalEvent ==
  \A j \in Jobs :
    (emitted[j] # <<>> /\ Last(emitted[j]).final)
      => db_jobs[j].status = Last(emitted[j]).status

\* C40: active_jobs holds a job id exactly while a run_job execution for that
\* id is in progress.
C40_ActiveIffExecuting ==
  \A j \in Jobs :
    active_jobs[j] # "absent" <=> \E r \in Runs : task[r].job = j /\ Executing(r)

\* The segments stored for j are the first segments emitted for j.
StoredArePrefix(j) ==
  LET E == EmittedSegments(j) IN
    /\ Len(db_segs[j]) <= Len(E)
    /\ \A k \in 1..Len(db_segs[j]) : db_segs[j][k] = SegRow(E[k])
\* C36: the segments stored for a job are always a prefix (by idx) of the
\* segments emitted for it.
C36_StoredArePrefixOfEmitted ==
  \A j \in Jobs : StoredArePrefix(j)

\* The number of segments emitted for j and not stored.
Unpersisted(j) == Len(EmittedSegments(j)) - Len(db_segs[j])
\* The batching of a job that is never deleted: at most BatchSize emitted
\* segments are unstored, and BatchSize of them only while run_job awaits the
\* insert of that full batch; segments are stored in whole batches (full
\* ones, or the remainder at the end of the stream); a job stored as
\* COMPLETED has all its emitted segments stored.
BatchedFlush ==
  \A j \in Jobs :
    /\ Unpersisted(j) <= BatchSize
    /\ Unpersisted(j) = BatchSize =>
         \E r \in Runs : /\ task[r].job = j /\ task[r].pc = "flush" /\ task[r].wait
                          /\ Len(task[r].segment_batch) = BatchSize
    /\ StoredArePrefix(j)
    /\ Len(db_segs[j]) % BatchSize = 0 \/ Unpersisted(j) = 0
    /\ db_jobs[j].status = COMPLETED => Unpersisted(j) = 0

\* What the store shows once write w has completed.
Applied(w) ==
  CASE w.op = "create" -> db_jobs'[w.job] # NoRow
    [] w.op = "delete" -> db_jobs'[w.job] = NoRow
    [] w.op = "status" ->
         db_jobs[w.job] # NoRow =>
           /\ db_jobs'[w.job].status = w.status
           /\ w.error # NULL => db_jobs'[w.job].error = w.error
    [] w.op = "progress" ->
         db_jobs[w.job] # NoRow => db_jobs'[w.job].progress = w.progress
    [] OTHER ->
         ~SegmentInsertFails(db_jobs, db_segs, w.job, w.segs) =>
           db_segs'[w.job] =
             db_segs[w.job] \o [i \in 1..Len(w.segs) |-> SegRow(w.segs[i])]
\* C34: the store changes only by applying the oldest issued write, one at a
\* time; the caller of a write resumes in the step that applies it, with the
\* store showing the write; a run_job has at most one write outstanding.
C34_WritesInIssueOrder ==
  [][/\ wq' # wq =>
          \/ Len(wq') = Len(wq) + 1 /\ SubSeq(wq', 1, Len(wq)) = wq
          \/ wq # <<>> /\ wq' = Tail(wq) /\ Applied(Head(wq))
     /\ (db_jobs' # db_jobs \/ db_segs' # db_segs) => wq # <<>> /\ wq' = Tail(wq)
     /\ \A r \in Runs :
          /\ task[r].wait /\ ~task'[r].wait =>
               wq # <<>> /\ wq' = Tail(wq) /\ Head(wq).by = TaskBy(r)
          /\ Cardinality({i \in 1..Len(wq') : wq'[i].by = TaskBy(r)}) <= 1
    ]_vars
\* The RUNNING write of run_job has been applied and run_job has resumed
\* while a CancelJob write issued after it is still waiting.
C34_Witness ==
  /\ wq # <<>> /\ Head(wq).by[1] = "cancel"
  /\ db_jobs[1].status = RUNNING
  /\ \E r \in Runs : task[r].job = 1 /\ task[r].pc = "running" /\ ~task[r].wait

\* The device and precision a model object was constructed with.
LoadedWith(model) ==
  IF \E l \in Loaders : model = FallbackModel(l)
    THEN <<"cpu", "int8">>
    ELSE LET l == CHOOSE l \in Loaders : model = LoadedModel(l)
         IN <<loader[l].key[2], loader[l].key[3]>>
\* C39: every model in the cache was constructed with the device and the
\* precision of the key it is cached under.
C39_CachedUnderLoadedDevice ==
  \A i \in 1..Len(entries) :
    LoadedWith(entries[i].model) = <<entries[i].key[2], entries[i].key[3]>>

\* C35: a job whose run_job was in flight when the server shut down is
\* stored CANCELED once the submitted writes are applied, and a CANCELED
\* terminal event was published for it.
C35_ShutdownCancelsJobs ==
  \A r \in Runs :
    (task[r].pc = "killed" /\ wq = <<>>)
      => /\ db_jobs[task[r].job].status = CANCELED
         /\ emitted[task[r].job] # <<>>
         /\ Last(emitted[task[r].job]).status = CANCELED
         /\ Last(emitted[task[r].job]).final

\* C33: after SaveTranscriptEdits calls that returned saved=true, GetTranscript
\* shows for every segment the edited_text of the latest saved edit of its idx
\* (the last one of a list too), '' when there is none or when the latest one
\* was empty, in which case the stored edited_text is NULL; and idx, start, end
\* and text of every segment are the ones the job produced.
C33_LatestEditShown ==
  \A j \in Jobs :
    \A i \in 1..Len(GetTranscript(j)) :
      LET seg == GetTranscript(j)[i]
          row == get_segments(db_segs, j)[i]
      IN /\ seg.edited_text =
              IF seg.index \in DOMAIN latest[j] THEN latest[j][seg.index] ELSE ""
         /\ (seg.index \in DOMAIN latest[j] /\ latest[j][seg.index] = "")
              => row.edited_text = NULL
         /\ TranscriptSegments(j)[i] = EmittedSegments(j)[i]

\* The statement of C33 for the calls that found the job in a terminal status.
EditsAfterEnd ==
  (\A e \in Edits : edit[e].saved => edit[e].snap \in terminal_statuses)
    => C33_LatestEditShown
\* Two saved calls have edited the same stored segment, the second one with an
\* empty text.
EditsAfterEnd_Reached ==
  /\ \A e \in Edits : edit[e].saved /\ edit[e].snap \in terminal_statuses
  /\ \E i \in 1..Len(db_segs[1]) :
       /\ db_segs[1][i].idx \in DOMAIN latest[1]
       /\ latest[1][db_segs[1][i].idx] = ""

====
